---- MODULE Spec2Model ----
(***************************************************************************)
(* Todo terminal manager: the persistence layer (Storage: atomic save by   *)
(* temp file + rename, tolerant load), the Todo validation rules and the   *)
(* domain model (TodoModel: CRUD over an in-memory array, full save after  *)
(* every mutation), and the panel registry of the terminal UI framework    *)
(* (BlessedUIFramework: registered panels, current focus).                 *)
(*                                                                         *)
(* Text is modelled by its structure: a title is a run-length encoded      *)
(* string, a file is a sequence of chunks of the JSON document.            *)
(***************************************************************************)
EXTENDS Integers, Sequences, FiniteSets, TLC

VARIABLES
    fs,         \* the file system: paths -> inodes, inodes -> content
    proc,       \* per process: position inside Storage.save, open descriptor
    out,        \* per process: outcome of its last Storage call
    committed,  \* history: argument of the last save whose rename completed
    todos,      \* TodoModel.todos, the in-memory array
    nextId,     \* history: number of ids uuidv4() has handed out
    now,        \* the clock read by new Date()
    ret,        \* what the last TodoModel call handed to its caller
    saveFailed, \* history: a save has thrown since this TodoModel was built
    panels,     \* BlessedUIFramework.panels, in the Map's insertion order
    currentPanel, \* BlessedUIFramework.currentPanel
    events,     \* history: calls made on the framework and what they called
    shell,      \* TerminalUIApp: what its panels hold (todos, selection, stats)
    other,      \* a second TodoModel on the same path, and who saved last
    cli,        \* the command line program: what its last run came to
    view,       \* TodoView: the title bar's content, its restore timers
    input,      \* CommandInputPanel: the input box, its feedback timers
    statusLine  \* StatusBarPanel: the status text, its message timers

vars == <<fs, proc, out, committed, todos, nextId, now, ret, saveFailed,
          panels, currentPanel, events, shell, other, cli,
          view, input, statusLine>>
storageVars == <<fs, proc, out, committed>>
modelVars == <<todos, nextId, now, ret, saveFailed>>
uiVars == <<panels, currentPanel, events, shell>>
tuiVars == <<view, input, statusLine>>
frontVars == <<cli, view, input, statusLine>>

-----------------------------------------------------------------------------
(* Bounds of the model *)

\* Longest collection handed directly to Storage.save
MaxColl == 2
\* Number of todos ever created by add (ids handed out)
MaxIds == 2
\* Last instant of the clock
MaxTime == 1
\* Longest collection in the specification of todo order
MaxOrderIds == 3
\* Number of calls made on the UI framework
MaxUiCalls == 3
\* Number of todos the two instances on one path add between them
MaxTwoIds == 2
\* Pending timers of one kind at once
MaxPending == 2
\* Commands held by the history of the command input
MaxHistory == 2

-----------------------------------------------------------------------------
(* Strings: a string is a sequence of runs [c, n] (character c, n times),   *)
(* adjacent runs having different characters.                              *)

Run(c, n) == [c |-> c, n |-> n]

RECURSIVE StrLen(_)
StrLen(s) == IF s = <<>> THEN 0 ELSE Head(s).n + StrLen(Tail(s))

RECURSIVE TrimStart(_)
TrimStart(s) ==
    IF s = <<>> THEN <<>>
    ELSE IF Head(s).c = " " THEN TrimStart(Tail(s)) ELSE s

RECURSIVE TrimEnd(_)
TrimEnd(s) ==
    IF s = <<>> THEN <<>>
    ELSE IF s[Len(s)].c = " " THEN TrimEnd(SubSeq(s, 1, Len(s) - 1)) ELSE s

\* String.prototype.trim
Trim(s) == TrimEnd(TrimStart(s))

-----------------------------------------------------------------------------
(* Todo and TodoValidation *)

MIN_TITLE_LENGTH == 1
MAX_TITLE_LENGTH == 100

isValidTitleNoTrim(title) ==
    /\ StrLen(title) >= MIN_TITLE_LENGTH
    /\ StrLen(title) <= MAX_TITLE_LENGTH

isValidTitle(title) ==
    /\ StrLen(Trim(title)) >= MIN_TITLE_LENGTH
    /\ StrLen(Trim(title)) <= MAX_TITLE_LENGTH

sanitizeTitleIdentity(title) == title

sanitizeTitle(title) == Trim(title)

\* Values of the Date-typed fields
Undefined == [t |-> "undefined"]
DateOf(ms) == [t |-> "Date", ms |-> ms]
InvalidDate == [t |-> "Date", ms |-> -1]

\* The Todo interface; add() leaves updatedAt unset
Todo(id, title, completed, createdAt, updatedAt) ==
    [id |-> id, title |-> title, completed |-> completed,
     createdAt |-> createdAt, updatedAt |-> updatedAt]

-----------------------------------------------------------------------------
(* JSON text of the storage file *)

Absent == [t |-> "absent"]
JString(ms) == [t |-> "string", iso |-> ms]
JNull == [t |-> "null"]

\* Date.prototype.toJSON (toISOString; null for an invalid date)
toISOString(d) == IF d.ms < 0 THEN JNull ELSE JString(d.ms)

\* new Date(value) applied to a parsed JSON value
NewDate(j) ==
    IF j.t = "string" THEN DateOf(j.iso)
    ELSE IF j.t = "null" THEN DateOf(0)
    ELSE InvalidDate

\* JSON.stringify of one todo: a property whose value is undefined is left out
StringifyTodo(todo) ==
    [t |-> "object", id |-> todo.id, title |-> todo.title,
     completed |-> todo.completed,
     createdAt |-> toISOString(todo.createdAt),
     updatedAt |-> IF todo.updatedAt = Undefined THEN Absent
                   ELSE toISOString(todo.updatedAt)]

HeadChunk == [k |-> "head"]   \* { "version": "1.0.0", "todos": [
TailChunk == [k |-> "tail"]   \* ] }
ItemChunk(j) == [k |-> "item", v |-> j]
LitChunk(text) == [k |-> "lit", v |-> text]
HoleChunk == [k |-> "hole"]   \* bytes never written (gap after a truncation)

\* JSON.stringify(data, null, 2) of { version, todos }, cut into chunks
Stringify(coll) ==
    <<HeadChunk>> \o [i \in 1..Len(coll) |-> ItemChunk(StringifyTodo(coll[i]))]
                  \o <<TailChunk>>

\* JSON.parse: [ok |-> FALSE] is a SyntaxError
JSONparse(data) ==
    IF data = <<LitChunk("null")>> THEN [ok |-> TRUE, v |-> JNull]
    ELSE IF data = <<LitChunk("{}")>>
        THEN [ok |-> TRUE, v |-> [t |-> "object", todos |-> Absent]]
    ELSE IF data = <<LitChunk("{\"todos\":5}")>>
        THEN [ok |-> TRUE, v |-> [t |-> "object", todos |-> [t |-> "number"]]]
    ELSE IF /\ Len(data) >= 2
            /\ data[1] = HeadChunk
            /\ data[Len(data)] = TailChunk
            /\ \A i \in 2..(Len(data) - 1) : data[i].k = "item"
        THEN [ok |-> TRUE,
              v |-> [t |-> "object",
                     todos |-> [t |-> "array",
                                items |-> [i \in 1..(Len(data) - 2) |-> data[i + 1].v]]]]
    ELSE [ok |-> FALSE]

-----------------------------------------------------------------------------
(* File system: two paths (the storage file and its .tmp sibling), inodes   *)
(* holding content, descriptors held by processes.                         *)

Procs == {"p1", "p2"}
Paths == {"final", "tmp"}
NoIno == 0
Inodes == 1..(Cardinality(Paths) + Cardinality(Procs))

EmptyFs == [path |-> [n \in Paths |-> NoIno], content |-> [i \in Inodes |-> <<>>]]

\* Inodes reachable from a path or from an open descriptor in `held`
Live(f, held) == {f.path[n] : n \in Paths} \cup held

\* Content of inodes nobody can reach is dropped
Reclaim(f, held) ==
    [f EXCEPT !.content = [i \in Inodes |->
        IF i \in Live(f, held) THEN f.content[i] ELSE <<>>]]

FreeIno(f, held) == CHOOSE i \in Inodes :
    /\ i \notin Live(f, held)
    /\ \A j \in Inodes : j \notin Live(f, held) => i <= j

existsSync(f, name) == f.path[name] # NoIno

readFileSync(f, name) == f.content[f.path[name]]

\* open(name, 'w'): truncate the existing inode, or create a new empty one
OpenTrunc(f, name, held) ==
    LET ino == IF existsSync(f, name) THEN f.path[name] ELSE FreeIno(f, held)
    IN [f EXCEPT !.path[name] = ino, !.content[ino] = <<>>]

\* write(fd) of one chunk at chunk offset pos (1-based); a gap reads as holes
WriteAt(f, ino, pos, chunk) ==
    LET old == f.content[ino]
        new == [i \in 1..(IF Len(old) > pos THEN Len(old) ELSE pos) |->
                    IF i = pos THEN chunk
                    ELSE IF i <= Len(old) THEN old[i] ELSE HoleChunk]
    IN [f EXCEPT !.content[ino] = new]

\* rename(from, to): one atomic switch of the directory entry
renameSync(f, from, to, held) ==
    IF from = to THEN f
    ELSE Reclaim([f EXCEPT !.path[to] = f.path[from], !.path[from] = NoIno], held)

\* What a reader of the storage file sees
FinalContent(f) ==
    IF existsSync(f, "final") THEN [exists |-> TRUE, data |-> readFileSync(f, "final")]
    ELSE [exists |-> FALSE, data |-> <<>>]

-----------------------------------------------------------------------------
(* Storage.load *)

Return(v) == [kind |-> "return", value |-> v]
Throw == [kind |-> "throw", value |-> <<>>]

\* the mapping of one parsed todo inside load()
ReviveTodo(j) ==
    Todo(j.id, j.title, j.completed, NewDate(j.createdAt),
         IF j.updatedAt # Absent THEN NewDate(j.updatedAt) ELSE NewDate(j.createdAt))

\* the body of the try block of load()
loadTry(f) ==
    IF ~existsSync(f, "final") THEN Return(<<>>)
    ELSE LET parsed == JSONparse(readFileSync(f, "final"))
         IN IF ~parsed.ok THEN Throw                       \* SyntaxError
            ELSE IF parsed.v.t = "null" THEN Throw          \* parsed.todos of null
            ELSE IF parsed.v.todos.t = "array"
                THEN IF \E i \in DOMAIN parsed.v.todos.items :
                            parsed.v.todos.items[i].t = "null"
                     THEN Throw                             \* todo.createdAt of null
                     ELSE Return([i \in DOMAIN parsed.v.todos.items |->
                                    ReviveTodo(parsed.v.todos.items[i])])
            ELSE Return(<<>>)

loadNoCatch(f) == loadTry(f)

\* load(): any error is caught and answered with the empty array
load(f) ==
    LET r == loadTry(f)
    IN IF r.kind = "throw" THEN Return(<<>>) ELSE r

-----------------------------------------------------------------------------
(* Storage.save, one system call at a time *)

\* Collections handed to Storage.save: one todo as add() builds it (no
\* updatedAt), one as load() returns it
TodoA == Todo(1, <<Run("a", 1)>>, FALSE, DateOf(0), Undefined)
TodoB == Todo(2, <<Run("b", 1)>>, TRUE, DateOf(1), DateOf(1))
TodoC == Todo(3, <<Run("c", 1), Run(" ", 1), Run("d", 2)>>, FALSE, DateOf(1), DateOf(2))
SampleTodos == {TodoA, TodoB, TodoC}

Collections ==
    {c \in UNION {[1..n -> SampleTodos] : n \in 0..MaxColl} :
        \A i, j \in DOMAIN c : i # j => c[i] # c[j]}

\* Content another program may leave in the storage file
ExternalContents ==
    { <<>>,
      <<LitChunk("garbage")>>,
      <<LitChunk("null")>>,
      <<LitChunk("{}")>>,
      <<LitChunk("{\"todos\":5}")>>,
      <<HeadChunk, ItemChunk(JNull), TailChunk>>,
      <<HeadChunk, ItemChunk(StringifyTodo(TodoB))>> }

\* Collections two concurrent writers hand to save
ConcurrentCollections == {<<TodoA>>, <<TodoB, TodoA>>}

NoContent == [exists |-> FALSE, data |-> <<>>]

Idle == [pc |-> "idle", arg |-> <<>>, fd |-> NoIno, pos |-> 0, before |-> NoContent]

\* at: the step at which save failed; kept: the storage file read the same
\* when save threw as when save was entered
NoOut == [op |-> "none", outcome |-> "none", at |-> "none", kept |-> TRUE,
          value |-> <<>>]

Held(pr) == {pr[p].fd : p \in Procs} \ {NoIno}

\* `${this.filePath}.tmp`
tempFileInPlace == "final"

tempFile == "tmp"

\* the catch block of save(): the error is wrapped and thrown again
saveCatchSwallow == "returned"

saveCatch == "threw"

\* save(todos) is entered; nothing has been done yet
SaveCall(p, c) ==
    /\ proc[p].pc = "idle"
    /\ proc' = [proc EXCEPT ![p] = [Idle EXCEPT !.pc = "mkdir", !.arg = c,
                                               !.before = FinalContent(fs)]]
    /\ out' = [out EXCEPT ![p] = [NoOut EXCEPT !.op = "save", !.outcome = "running"]]
    /\ UNCHANGED <<fs, committed>>
    /\ UNCHANGED <<modelVars, uiVars, other, frontVars>>

\* fs.mkdirSync(dir, { recursive: true })
Mkdir(p) ==
    /\ proc[p].pc = "mkdir"
    /\ proc' = [proc EXCEPT ![p].pc = "stringify"]
    /\ UNCHANGED <<fs, out, committed>>
    /\ UNCHANGED <<modelVars, uiVars, other, frontVars>>

\* JSON.stringify(data, null, 2), the argument of writeFileSync
StringifyStep(p) ==
    /\ proc[p].pc = "stringify"
    /\ proc' = [proc EXCEPT ![p].pc = "open"]
    /\ UNCHANGED <<fs, out, committed>>
    /\ UNCHANGED <<modelVars, uiVars, other, frontVars>>

\* writeFileSync(tempFile, ...): open for writing, truncating
OpenTemp(p) ==
    /\ proc[p].pc = "open"
    /\ LET f == OpenTrunc(fs, tempFile, Held(proc))
       IN /\ fs' = f
          /\ proc' = [proc EXCEPT ![p].pc = "write", ![p].fd = f.path[tempFile]]
    /\ UNCHANGED <<out, committed>>
    /\ UNCHANGED <<modelVars, uiVars, other, frontVars>>

\* writeFileSync: one more chunk; the descriptor is closed after the last one
WriteChunk(p) ==
    /\ proc[p].pc = "write"
    /\ LET text == Stringify(proc[p].arg)
           k == proc[p].pos + 1
           last == k = Len(text)
           pr == [proc EXCEPT ![p].pos = k,
                              ![p].fd = IF last THEN NoIno ELSE @,
                              ![p].pc = IF last THEN "rename" ELSE @]
       IN /\ proc' = pr
          /\ fs' = Reclaim(WriteAt(fs, proc[p].fd, k, text[k]), Held(pr))
    /\ UNCHANGED <<out, committed>>
    /\ UNCHANGED <<modelVars, uiVars, other, frontVars>>

\* save() ends by throwing from step `at`
SaveThrows(p, at, f) ==
    [out[p] EXCEPT !.outcome = saveCatch, !.at = at,
                   !.kept = (FinalContent(f) = proc[p].before)]

\* fs.renameSync(tempFile, this.filePath); ENOENT when the temp file is gone
Rename(p) ==
    /\ proc[p].pc = "rename"
    /\ IF existsSync(fs, tempFile)
       THEN /\ fs' = renameSync(fs, tempFile, "final", Held(proc))
            /\ committed' = [some |-> TRUE, coll |-> proc[p].arg]
            /\ out' = [out EXCEPT ![p].outcome = "returned"]
       ELSE /\ out' = [out EXCEPT ![p] = SaveThrows(p, "rename", fs)]
            /\ UNCHANGED <<fs, committed>>
    /\ proc' = [proc EXCEPT ![p] = Idle]
    /\ UNCHANGED <<modelVars, uiVars, other, frontVars>>

\* The call the process is about to make fails (EACCES, ENOSPC, ...):
\* writeFileSync closes its descriptor, save's catch block runs
Fail(p) ==
    /\ proc[p].pc # "idle"
    /\ LET pr == [proc EXCEPT ![p] = Idle]
           f == Reclaim(fs, Held(pr))
       IN /\ proc' = pr
          /\ fs' = f
          /\ out' = [out EXCEPT ![p] = SaveThrows(p, proc[p].pc, f)]
    /\ UNCHANGED committed
    /\ UNCHANGED <<modelVars, uiVars, other, frontVars>>

\* The process is killed inside save; a new process takes its place
Kill(p) ==
    /\ proc[p].pc # "idle"
    /\ LET pr == [proc EXCEPT ![p] = Idle]
       IN /\ proc' = pr
          /\ fs' = Reclaim(fs, Held(pr))
    /\ out' = [out EXCEPT ![p].outcome = "killed"]
    /\ UNCHANGED committed
    /\ UNCHANGED <<modelVars, uiVars, other, frontVars>>

\* load() as a whole: it only reads
LoadCall(p) ==
    /\ proc[p].pc = "idle"
    /\ LET r == load(fs)
       IN out' = [out EXCEPT ![p] =
              [NoOut EXCEPT !.op = "load",
                            !.outcome = IF r.kind = "throw" THEN "threw" ELSE "returned",
                            !.value = r.value]]
    /\ UNCHANGED <<fs, proc, committed>>
    /\ UNCHANGED <<modelVars, uiVars, other, frontVars>>

\* Another program writes the storage file in place, between two calls
ExternalWrite(data) ==
    /\ \A p \in Procs : proc[p].pc = "idle"
    /\ LET f == OpenTrunc(fs, "final", Held(proc))
       IN fs' = [f EXCEPT !.content[f.path["final"]] = data]
    /\ committed' = [some |-> FALSE, coll |-> <<>>]
    /\ out' = [p \in Procs |-> NoOut]
    /\ UNCHANGED proc
    /\ UNCHANGED <<modelVars, uiVars, other, frontVars>>

\* The steps of a save that has been entered
SaveStep(p) ==
    \/ Mkdir(p)
    \/ StringifyStep(p)
    \/ OpenTemp(p)
    \/ WriteChunk(p)
    \/ Rename(p)

StorageStep(p) ==
    \/ \E c \in Collections : SaveCall(p, c)
    \/ SaveStep(p)
    \/ Fail(p)
    \/ LoadCall(p)

-----------------------------------------------------------------------------
(* Storage.save as one uninterrupted call, as TodoModel uses it. `fault`    *)
(* names the step at which the environment makes it fail ("none": it does  *)
(* not).                                                                   *)

SaveFaults == {"none", "mkdir", "write", "rename"}
RealFaults == SaveFaults \ {"none"}

RECURSIVE WriteChunks(_, _, _, _)
\* chunks 1..n of text written through a descriptor on inode ino
WriteChunks(f, ino, text, n) ==
    IF n = 0 THEN f
    ELSE WriteAt(WriteChunks(f, ino, text, n - 1), ino, n, text[n])

save(f, coll, fault) ==
    LET text == Stringify(coll)
        opened == OpenTrunc(f, tempFile, {})
        ino == opened.path[tempFile]
    IN IF fault = "mkdir" THEN [fs |-> f, outcome |-> saveCatch]
       ELSE IF fault = "write"
           \* the device fills up before the last chunk
           THEN [fs |-> WriteChunks(opened, ino, text, Len(text) - 1),
                 outcome |-> saveCatch]
       ELSE IF fault = "rename"
           THEN [fs |-> WriteChunks(opened, ino, text, Len(text)),
                 outcome |-> saveCatch]
       ELSE [fs |-> renameSync(WriteChunks(opened, ino, text, Len(text)),
                               tempFile, "final", {}),
             outcome |-> "returned"]

-----------------------------------------------------------------------------
(* TodoModel *)

\* Titles the callers pass
TitleInputs ==
    { <<>>,                                               \* ""
      <<Run(" ", 3)>>,                                    \* "   "
      <<Run("a", 1)>>,                                    \* "a"
      <<Run(" ", 1), Run("a", 1), Run(" ", 2)>>,          \* " a  "
      <<Run(" ", 1), Run("x", 100), Run(" ", 1)>>,        \* 100 x's, padded
      <<Run("x", 101)>>,                                  \* 101 x's
      <<Run(" ", 2), Run("x", 101)>> }                    \* 101 x's, padded

\* Ids the callers pass: every id add() can hand out, and one it never does
IdInputs == 1..(MaxIds + 1)

\* What a call hands back: a reference to an object of this.todos, or a
\* fresh object holding a copy of its fields
Ref(i) == [live |-> TRUE, at |-> i]
Copy(todo) == [live |-> FALSE, val |-> todo]

\* The object a handle stands for, as the caller reads it
Deref(ts, h) == IF h.live THEN ts[h.at] ELSE h.val

NoRet == [op |-> "new", outcome |-> "return", error |-> "none", objs |-> <<>>,
          flag |-> FALSE, count |-> 0, saved |-> FALSE, arg |-> 0]

\* private loadTodos(): this.todos = this.storage.load()
loadTodos(f) ==
    LET r == load(f)
    IN IF r.kind = "throw" THEN <<>> ELSE r.value

saveTodosSkipped(f, coll, fault) == [fs |-> f, outcome |-> "returned"]

saveTodosSwallow(f, coll, fault) ==
    [fs |-> save(f, coll, fault).fs, outcome |-> "returned"]

saveTodosMerging(f, coll, fault) ==
    LET onDisk == loadTodos(f)
        kept == {t \in {onDisk[i] : i \in DOMAIN onDisk} :
                    \A j \in DOMAIN coll : coll[j].id # t.id}
    IN save(f, SelectSeq(onDisk, LAMBDA t : t \in kept) \o coll, fault)

\* private saveTodos(): storage.save(this.todos), an error is thrown again
saveTodos(f, coll, fault) == save(f, coll, fault)

FindOrFirst(ts, id) ==
    IF \E i \in DOMAIN ts : ts[i].id = id
    THEN CHOOSE i \in DOMAIN ts : ts[i].id = id
    ELSE IF ts = <<>> THEN 0 ELSE 1

\* this.todos.find(t => t.id === id): index of the first match, 0 if none
Find(ts, id) ==
    IF \E i \in DOMAIN ts : ts[i].id = id
    THEN CHOOSE i \in DOMAIN ts : ts[i].id = id /\ \A j \in 1..(i - 1) : ts[j].id # id
    ELSE 0

RECURSIVE Filter(_, _)
\* Array.prototype.filter, keep(t) given as the set of elements to keep
Filter(ts, keep) ==
    IF ts = <<>> THEN <<>>
    ELSE IF Head(ts) \in keep THEN <<Head(ts)>> \o Filter(Tail(ts), keep)
    ELSE Filter(Tail(ts), keep)

\* The outcome of the trailing saveTodos() of a mutating call
AfterSave(r, call, objs) ==
    /\ fs' = r.fs
    /\ IF r.outcome = "returned"
       THEN /\ ret' = [call EXCEPT !.objs = objs, !.saved = TRUE]
            /\ UNCHANGED saveFailed
       ELSE /\ ret' = [call EXCEPT !.outcome = "throw", !.error = "persist"]
            /\ saveFailed' = TRUE

uuidv4Reused(issued) == 1

\* uuidv4(): an id no earlier call has returned; `issued` counts the calls
uuidv4(issued) == issued + 1

\* add(title)
add(title, fault) ==
    LET call == [NoRet EXCEPT !.op = "add"]
    IN IF ~isValidTitle(title)
       THEN /\ fault = "none"
            /\ ret' = [call EXCEPT !.outcome = "throw", !.error = "validation"]
            /\ UNCHANGED <<fs, todos, nextId, now, saveFailed, proc, out, committed>>
       ELSE LET newTodo == Todo(uuidv4(nextId), sanitizeTitle(title), FALSE,
                                DateOf(now), Undefined)
                ts == Append(todos, newTodo)
            IN /\ todos' = ts
               /\ nextId' = nextId + 1
               /\ AfterSave(saveTodos(fs, ts, fault), call, <<Ref(Len(ts))>>)
               /\ UNCHANGED <<now, proc, out, committed>>

wasDeletedAlways(ts, initialLength) == TRUE

\* const wasDeleted = this.todos.length < initialLength
wasDeleted(ts, initialLength) == Len(ts) < initialLength

\* delete(id)
delete(id, fault) ==
    LET call == [NoRet EXCEPT !.op = "delete", !.arg = id]
        ts == Filter(todos, {t \in {todos[i] : i \in DOMAIN todos} : t.id # id})
    IN /\ todos' = ts
       /\ IF wasDeleted(ts, Len(todos))
          THEN AfterSave(saveTodos(fs, ts, fault), [call EXCEPT !.flag = TRUE], <<>>)
          ELSE /\ fault = "none"
               /\ ret' = call
               /\ UNCHANGED <<fs, saveFailed>>
       /\ UNCHANGED <<nextId, now, proc, out, committed>>

toggleCompleteAll(id, fault) ==
    LET call == [NoRet EXCEPT !.op = "toggleComplete"]
        i == Find(todos, id)
    IN /\ IF i = 0
          THEN /\ fault = "none"
               /\ ret' = call
               /\ UNCHANGED <<fs, todos, saveFailed>>
          ELSE LET ts == [k \in DOMAIN todos |->
                            [todos[k] EXCEPT !.completed = ~todos[i].completed]]
               IN /\ todos' = ts
                  /\ AfterSave(saveTodos(fs, ts, fault), call, <<Ref(i)>>)
       /\ UNCHANGED <<nextId, now, proc, out, committed>>

\* toggleComplete(id)
toggleComplete(id, fault) ==
    LET call == [NoRet EXCEPT !.op = "toggleComplete"]
        i == Find(todos, id)
    IN /\ IF i = 0
          THEN /\ fault = "none"
               /\ ret' = call
               /\ UNCHANGED <<fs, todos, saveFailed>>
          ELSE LET ts == [todos EXCEPT ![i].completed = ~todos[i].completed]
               IN /\ todos' = ts
                  /\ AfterSave(saveTodos(fs, ts, fault), call, <<Ref(i)>>)
       /\ UNCHANGED <<nextId, now, proc, out, committed>>

\* updateTitle(id, newTitle)
updateTitle(id, newTitle, fault) ==
    LET call == [NoRet EXCEPT !.op = "updateTitle"]
        i == Find(todos, id)
    IN /\ IF ~isValidTitle(newTitle)
          THEN /\ fault = "none"
               /\ ret' = [call EXCEPT !.outcome = "throw", !.error = "validation"]
               /\ UNCHANGED <<fs, todos, saveFailed>>
          ELSE IF i = 0
          THEN /\ fault = "none"
               /\ ret' = call
               /\ UNCHANGED <<fs, todos, saveFailed>>
          ELSE LET ts == [todos EXCEPT ![i].title = sanitizeTitle(newTitle)]
               IN /\ todos' = ts
                  /\ AfterSave(saveTodos(fs, ts, fault), call, <<Copy(ts[i])>>)
       /\ UNCHANGED <<nextId, now, proc, out, committed>>

\* clear()
clear(fault) ==
    LET call == [NoRet EXCEPT !.op = "clear", !.count = Len(todos)]
    IN /\ todos' = <<>>
       /\ AfterSave(saveTodos(fs, <<>>, fault), call, <<>>)
       /\ UNCHANGED <<nextId, now, proc, out, committed>>

\* getCount(): this.todos.length
getCount(ts) == Len(ts)

getCompletedCountAll(ts) == Len(ts)

\* getCompletedCount(): this.todos.filter(todo => todo.completed).length
getCompletedCount(ts) ==
    Len(Filter(ts, {t \in {ts[i] : i \in DOMAIN ts} : t.completed}))

\* getIncompleteCount(): this.todos.filter(todo => !todo.completed).length
getIncompleteCount(ts) ==
    Len(Filter(ts, {t \in {ts[i] : i \in DOMAIN ts} : ~t.completed}))

getAllLive(ts) == [i \in DOMAIN ts |-> Ref(i)]

getAllReversed(ts) == [i \in DOMAIN ts |-> Copy(ts[Len(ts) + 1 - i])]

\* getAll(): this.todos.map(todo => ({ ...todo }))
getAll(ts) == [i \in DOMAIN ts |-> Copy(ts[i])]

\* getById(id): { ...todo } or null
getById(ts, id) ==
    IF Find(ts, id) = 0 THEN <<>> ELSE <<Copy(ts[Find(ts, id)])>>

\* getByStatus(completed): filter, then copies
getByStatus(ts, completed) ==
    getAll(Filter(ts, {t \in {ts[i] : i \in DOMAIN ts} : t.completed = completed}))

\* a read call; it changes nothing but what the caller holds
GetAllCall ==
    /\ ret' = [NoRet EXCEPT !.op = "getAll", !.objs = getAll(todos)]
    /\ UNCHANGED <<fs, todos, nextId, now, saveFailed, proc, out, committed, uiVars, other, frontVars>>

GetByIdCall(id) ==
    /\ ret' = [NoRet EXCEPT !.op = "getById", !.objs = getById(todos, id)]
    /\ UNCHANGED <<fs, todos, nextId, now, saveFailed, proc, out, committed, uiVars, other, frontVars>>

GetByStatusCall(completed) ==
    /\ ret' = [NoRet EXCEPT !.op = "getByStatus", !.flag = completed,
                            !.objs = getByStatus(todos, completed)]
    /\ UNCHANGED <<fs, todos, nextId, now, saveFailed, proc, out, committed, uiVars, other, frontVars>>

\* new TodoModel(storagePath) on the same path: the process starts again
NewModel ==
    /\ todos' = loadTodos(fs)
    /\ ret' = NoRet
    /\ saveFailed' = FALSE
    /\ UNCHANGED <<fs, nextId, now, proc, out, committed, uiVars, other, frontVars>>

\* time passes
Tick ==
    /\ now < MaxTime
    /\ now' = now + 1
    /\ UNCHANGED <<fs, todos, nextId, ret, saveFailed, proc, out, committed, uiVars, other, frontVars>>

\* Fields the caller assigns to, and the value it assigns: another title,
\* the other truth value
AssignableFields == {"title", "completed"}

Assigned(field, old) ==
    IF field = "completed" THEN ~old
    ELSE IF old = <<Run("a", 1)>> THEN <<Run("x", 100)>> ELSE <<Run("a", 1)>>

\* The caller assigns to a field of the k-th object the last call returned
AssignField(k, field) ==
    /\ ret.outcome = "return"
    /\ k \in DOMAIN ret.objs
    /\ IF ret.objs[k].live
       THEN LET i == ret.objs[k].at
            IN /\ todos' = [todos EXCEPT ![i][field] = Assigned(field, @)]
               /\ UNCHANGED ret
       ELSE /\ ret' = [ret EXCEPT !.objs[k].val[field] = Assigned(field, @)]
            /\ UNCHANGED todos
    /\ UNCHANGED <<fs, nextId, now, saveFailed, proc, out, committed, uiVars, other, frontVars>>

\* add() while fewer than `cap` ids have been handed out, the front end
\* standing still
AddUpTo(cap, title, fault) ==
    /\ isValidTitle(title) => nextId < cap
    /\ add(title, fault)
    /\ UNCHANGED <<uiVars, other, frontVars>>

\* The mutating calls of TodoModel with titles from `titles`, their saves
\* failing as `faults` allows
MutationOf(titles, faults) ==
    \E fault \in faults :
        \/ \E title \in titles : AddUpTo(MaxIds, title, fault)
        \/ \E id \in IdInputs : delete(id, fault) /\ UNCHANGED <<uiVars, other, frontVars>>
        \/ \E id \in IdInputs : toggleComplete(id, fault) /\ UNCHANGED <<uiVars, other, frontVars>>
        \/ \E id \in IdInputs, title \in titles :
                updateTitle(id, title, fault) /\ UNCHANGED <<uiVars, other, frontVars>>
        \/ clear(fault) /\ UNCHANGED <<uiVars, other, frontVars>>

Mutation(faults) == MutationOf(TitleInputs, faults)

\* Titles passed while saves fail: two that need trimming, one too long
FaultyTitles ==
    { <<Run(" ", 1), Run("a", 1), Run(" ", 2)>>,
      <<Run(" ", 1), Run("x", 100), Run(" ", 1)>>,
      <<Run("x", 101)>> }

\* The reading calls
Reading ==
    \/ GetAllCall
    \/ \E id \in IdInputs : GetByIdCall(id)
    \/ \E completed \in BOOLEAN : GetByStatusCall(completed)

-----------------------------------------------------------------------------
(* Two TodoModel instances on one storage path *)

\* The instance that is not being called: its this.todos. With it, for the
\* record: the ids the called instance has added since the other was
\* constructed (ours), the ids the other has added since the called one was
\* constructed (theirs), and which of the two saved last
NoOther == [todos |-> <<>>, ours |-> {}, theirs |-> {}, lastSaver |-> "none"]

\* The record after a call on the called instance that took its collection
\* from `before` to `after` and returned r
Noted(before, after, r) ==
    [other EXCEPT
        !.ours = @ \cup ({after[i].id : i \in DOMAIN after}
                            \ {before[i].id : i \in DOMAIN before}),
        !.lastSaver = IF r.saved THEN "called" ELSE @]

\* A mutating call on the called instance, every save succeeding
CalledMutation ==
    /\ \/ /\ nextId < MaxTwoIds
          /\ add(<<Run("a", 1)>>, "none")
       \/ \E id \in 1..MaxTwoIds : delete(id, "none")
       \/ \E id \in 1..MaxTwoIds : toggleComplete(id, "none")
       \/ clear("none")
    /\ other' = Noted(todos, todos', ret')
    /\ UNCHANGED <<uiVars, frontVars>>

\* The caller turns to the other instance
Turn ==
    /\ todos' = other.todos
    /\ other' = [todos |-> todos, ours |-> other.theirs, theirs |-> other.ours,
                 lastSaver |-> IF other.lastSaver = "called" THEN "other"
                               ELSE IF other.lastSaver = "other" THEN "called"
                               ELSE "none"]
    /\ ret' = NoRet
    /\ UNCHANGED <<fs, nextId, now, saveFailed, proc, out, committed, uiVars, frontVars>>

\* new TodoModel(storagePath) in place of the called instance: it loads the
\* file, which it does at no other time
Reconstruct ==
    /\ todos' = loadTodos(fs)
    /\ other' = [other EXCEPT !.theirs = {},
                              !.lastSaver = IF @ = "called" THEN "none" ELSE @]
    /\ ret' = NoRet
    /\ UNCHANGED <<fs, nextId, now, saveFailed, proc, out, committed, uiVars, frontVars>>

-----------------------------------------------------------------------------
(* The command line program: CLIController *)

\* No run of the command line program yet
NoCli == [stage |-> "none", command |-> "none", success |-> FALSE,
          error |-> "none", message |-> "none"]

\* CLIResult as execute() returns it
Success(command, message) ==
    [stage |-> "execute", command |-> command, success |-> TRUE,
     error |-> "none", message |-> message]
Failure(command, error) ==
    [stage |-> "execute", command |-> command, success |-> FALSE,
     error |-> error, message |-> "none"]

\* Identifier texts: the uuid of the n-th todo added; the decimal digits of
\* k ("2"); digits of k with something after them ("2nd", "2.5"); a text
\* that starts with neither a digit nor a sign ("abc"); no identifier
UuidText(n) == [kind |-> "uuid", n |-> n]
IntText(k) == [kind |-> "int", n |-> k]
IntThenText(k) == [kind |-> "intThenText", n |-> k]
WordText == [kind |-> "word", n |-> 0]
NoId == [kind |-> "none", n |-> 0]

\* The id of TodoModel an identifier text is equal to as a string, 0 if none
\* (a uuid has 36 characters, and is no sequence of digits)
IdOf(text) == IF text.kind = "uuid" THEN text.n ELSE 0

NotANumber == [nan |-> TRUE, v |-> 0]
Number(v) == [nan |-> FALSE, v |-> v]

\* The decimal digits a uuid starts with, as parseInt reads them; uuidv4()
\* draws them at random, here every second uuid starts with a letter and the
\* others with "1" and then a letter
uuidLeading(n) == IF n % 2 = 0 THEN Number(1) ELSE NotANumber

\* parseInt(id): the leading digits, whatever follows them; NaN if none
parseInt(text) ==
    IF text.kind \in {"int", "intThenText"} THEN Number(text.n)
    ELSE IF text.kind = "uuid" THEN uuidLeading(text.n)
    ELSE NotANumber

\* private findTodoById(id): by exact id, else by 1-based index into getAll()
findTodoById(ts, id) ==
    LET todo == getById(ts, IdOf(id))
        index == parseInt(id)
    IN IF todo # <<>> THEN todo
       ELSE IF ~index.nan /\ index.v > 0 /\ index.v <= Len(getAll(ts))
            THEN <<getAll(ts)[index.v]>>
       ELSE <<>>

\* A ParsedCommand: the command name, arguments.id, arguments.title (add) or
\* options.title (edit), and the flags among the options
ParsedCommand(command, id, hasTitle, title, flags) ==
    [command |-> command, id |-> id, hasTitle |-> hasTitle, title |-> title,
     flags |-> flags]

\* The model is left as it is
ModelUntouched == UNCHANGED <<fs, todos, nextId, now, ret, saveFailed, proc, out, committed>>

\* What a handler returns after a mutating call of the model: the error
\* thrown, the failure for a null or false answer, or the success
Answered(command, message, nothing) ==
    cli' = IF ret'.outcome = "throw" THEN Failure(command, ret'.error)
           ELSE IF nothing THEN Failure(command, "failed")
           ELSE Success(command, message)

\* private handleAdd
handleAdd(pc, fault) ==
    /\ add(pc.title, fault)
    /\ Answered("add", "added", FALSE)

\* private handleComplete: options.undo chooses the words of the message
handleComplete(pc, fault) ==
    LET todo == findTodoById(todos, pc.id)
    IN IF todo = <<>>
       THEN /\ fault = "none"
            /\ cli' = Failure("complete", "not found")
            /\ ModelUntouched
       ELSE /\ toggleComplete(Deref(todos, todo[1]).id, fault)
            /\ Answered("complete",
                        IF "undo" \in pc.flags THEN "marked as incomplete"
                        ELSE "completed",
                        ret'.objs = <<>>)

\* private handleRemove
handleRemove(pc, fault) ==
    LET todo == findTodoById(todos, pc.id)
    IN IF todo = <<>>
       THEN /\ fault = "none"
            /\ cli' = Failure("remove", "not found")
            /\ ModelUntouched
       ELSE /\ delete(Deref(todos, todo[1]).id, fault)
            /\ Answered("remove", "deleted", ~ret'.flag)

\* private handleEdit, the new title given as --title
handleEdit(pc, fault) ==
    LET todo == findTodoById(todos, pc.id)
    IN IF todo = <<>>
       THEN /\ fault = "none"
            /\ cli' = Failure("edit", "not found")
            /\ ModelUntouched
       ELSE IF ~pc.hasTitle \/ pc.title = <<>>
       THEN /\ fault = "none"
            /\ cli' = Failure("edit", "no new title")
            /\ ModelUntouched
       ELSE /\ updateTitle(Deref(todos, todo[1]).id, pc.title, fault)
            /\ Answered("edit", "updated", ret'.objs = <<>>)

RECURSIVE DeleteEach(_, _, _)
\* this.model.delete(todo.id) for each of `ids` in turn, every save
\* succeeding: the collection and the file system after the last one
DeleteEach(f, ts, ids) ==
    IF ids = <<>> THEN [fs |-> f, todos |-> ts]
    ELSE LET rest == Filter(ts, {t \in {ts[i] : i \in DOMAIN ts} : t.id # Head(ids)})
         IN DeleteEach(saveTodos(f, rest, "none").fs, rest, Tail(ids))

\* private handleClear: --completed deletes the completed todos one by one
\* (`fault` strikes the first save), --all clears
handleClear(pc, fault) ==
    IF "completed" \in pc.flags
    THEN LET completedTodos == getByStatus(todos, TRUE)
             ids == [i \in DOMAIN completedTodos |-> Deref(todos, completedTodos[i]).id]
             call == [NoRet EXCEPT !.op = "delete", !.flag = TRUE]
         IN IF ids = <<>>
            THEN /\ fault = "none"
                 /\ cli' = Success("clear", "nothing to clear")
                 /\ ModelUntouched
            ELSE IF fault = "none"
            THEN LET end == DeleteEach(fs, todos, ids)
                 IN /\ todos' = end.todos
                    /\ fs' = end.fs
                    /\ ret' = [call EXCEPT !.saved = TRUE, !.arg = ids[Len(ids)]]
                    /\ cli' = Success("clear", "cleared")
                    /\ UNCHANGED <<nextId, now, saveFailed, proc, out, committed>>
            ELSE /\ delete(Head(ids), fault)
                 /\ Answered("clear", "cleared", FALSE)
    ELSE IF "all" \in pc.flags
    THEN /\ clear(fault)
         /\ Answered("clear",
                     IF ret'.count > 0 THEN "cleared" ELSE "nothing to clear",
                     FALSE)
    ELSE /\ fault = "none"
         /\ cli' = Success("clear", "nothing to clear")
         /\ ModelUntouched

\* private handleList, handleStats, handleHelp: they read and format
handleReading(pc, fault) ==
    /\ fault = "none"
    /\ cli' = Success(pc.command, "output")
    /\ ModelUntouched

\* async execute(parsedCommand): the switch inside try/catch
execute(pc, fault) ==
    IF pc.command = "add" THEN handleAdd(pc, fault)
    ELSE IF pc.command \in {"list", "stats", "help"} THEN handleReading(pc, fault)
    ELSE IF pc.command = "complete" THEN handleComplete(pc, fault)
    ELSE IF pc.command = "remove" THEN handleRemove(pc, fault)
    ELSE IF pc.command = "edit" THEN handleEdit(pc, fault)
    ELSE IF pc.command = "clear" THEN handleClear(pc, fault)
    ELSE /\ fault = "none"
         /\ cli' = Failure(pc.command, "unknown command")
         /\ ModelUntouched

-----------------------------------------------------------------------------
(* The command line program: CommandParser and TodoCLI.run *)

\* CLI_COMMANDS: the names, and the positional arguments each one declares
CLI_COMMANDS == {"add", "list", "complete", "remove", "edit", "clear", "stats", "help"}

ArgumentNames(command) ==
    IF command = "add" THEN <<"title">>
    ELSE IF command \in {"complete", "remove"} THEN <<"id">>
    ELSE IF command = "edit" THEN <<"id", "field", "value">>
    ELSE <<>>

\* One word of the command line after the command name: a title or an
\* identifier; and the command line: the name, the words, the flags given
\* as --name, and --title with its value
TitleWord(title) == [kind |-> "title", title |-> title, id |-> NoId]
IdWord(id) == [kind |-> "id", title |-> <<>>, id |-> id]
Argv(command, words, flags, hasTitleOption, titleOption) ==
    [command |-> command, words |-> words, flags |-> flags,
     hasTitleOption |-> hasTitleOption, titleOption |-> titleOption]

\* arg.startsWith('-')
StartsWithDash(word) ==
    word.kind = "title" /\ word.title # <<>> /\ Head(word.title).c = "-"

Parsed(pc) == [ok |-> TRUE, pc |-> pc, error |-> "none"]
ParseError(error) ==
    [ok |-> FALSE, pc |-> ParsedCommand("none", NoId, FALSE, <<>>, {}), error |-> error]

\* private parseArgsAndOptions: a word that starts with '-' is looked up
\* among the options (none of the words given here names one), the others
\* fill the declared arguments in order
parseArgsAndOptions(argv) ==
    IF \E k \in DOMAIN argv.words : StartsWithDash(argv.words[k])
    THEN ParseError("unknown option")
    ELSE IF Len(argv.words) > Len(ArgumentNames(argv.command))
    THEN ParseError("unexpected argument")
    ELSE LET names == ArgumentNames(argv.command)
             given(name) == \E k \in DOMAIN argv.words : names[k] = name
             word(name) == argv.words[CHOOSE k \in DOMAIN argv.words : names[k] = name]
         IN Parsed(ParsedCommand(
                argv.command,
                IF given("id") THEN word("id").id ELSE NoId,
                IF argv.command = "add" THEN given("title") ELSE argv.hasTitleOption,
                IF argv.command = "add"
                THEN (IF given("title") THEN word("title").title ELSE <<>>)
                ELSE argv.titleOption,
                argv.flags))

validateCommandSpecificTrimmed(pc) ==
    IF pc.command = "add"
    THEN IF pc.title # <<>> /\ ~isValidTitle(pc.title)
         THEN "title length" ELSE "ok"
    ELSE IF pc.command \in {"complete", "remove", "edit"}
    THEN IF pc.id = NoId THEN "requires an ID" ELSE "ok"
    ELSE IF pc.command = "clear"
    THEN IF "completed" \notin pc.flags /\ "all" \notin pc.flags
         THEN "requires a flag" ELSE "ok"
    ELSE "ok"

\* private validateCommandSpecific: args.title.length, untrimmed
validateCommandSpecific(pc) ==
    IF pc.command = "add"
    THEN IF pc.title # <<>> /\ (StrLen(pc.title) < 1 \/ StrLen(pc.title) > 100)
         THEN "title length" ELSE "ok"
    ELSE IF pc.command \in {"complete", "remove", "edit"}
    THEN IF pc.id = NoId THEN "requires an ID" ELSE "ok"
    ELSE IF pc.command = "clear"
    THEN IF "completed" \notin pc.flags /\ "all" \notin pc.flags
         THEN "requires a flag" ELSE "ok"
    ELSE "ok"

\* private validateCommand: the required arguments, then the command's own
validateCommand(pc) ==
    IF pc.command = "add" /\ ~pc.hasTitle THEN "missing argument"
    ELSE IF pc.command \in {"complete", "remove", "edit"} /\ pc.id = NoId
    THEN "missing argument"
    ELSE validateCommandSpecific(pc)

\* parse(args)
parse(argv) ==
    IF argv.command \notin CLI_COMMANDS THEN ParseError("command not found")
    ELSE LET r == parseArgsAndOptions(argv)
         IN IF ~r.ok THEN r
            ELSE IF validateCommand(r.pc) # "ok" THEN ParseError(validateCommand(r.pc))
            ELSE r

\* run(argv): parse, execute, print; an error of the parser is printed and
\* nothing is executed
run(argv) ==
    LET r == parse(argv)
    IN IF r.ok THEN execute(r.pc, "none")
       ELSE /\ cli' = [stage |-> "parse", command |-> argv.command,
                       success |-> FALSE, error |-> r.error, message |-> "none"]
            /\ ModelUntouched

\* Titles given to `add` on the command line
CliTitles ==
    { <<>>,                                               \* ""
      <<Run(" ", 3)>>,                                    \* "   "
      <<Run("a", 1)>>,                                    \* "a"
      <<Run("-", 1), Run("a", 1)>>,                       \* "-a"
      <<Run(" ", 1), Run("x", 100)>>,                     \* 100 x's after a blank
      <<Run("x", 101)>> }                                 \* 101 x's

\* Command lines: add with and without a title, complete and clear with and
\* without what they need, a name that is no command
CliLines ==
    {Argv("add", <<TitleWord(title)>>, {}, FALSE, <<>>) : title \in CliTitles}
    \cup {Argv("add", <<>>, {}, FALSE, <<>>),
          Argv("add", <<TitleWord(<<Run("a", 1)>>), TitleWord(<<Run("a", 1)>>)>>,
               {}, FALSE, <<>>),
          Argv("complete", <<IdWord(IntText(1))>>, {}, FALSE, <<>>),
          Argv("complete", <<>>, {}, FALSE, <<>>),
          Argv("clear", <<>>, {}, FALSE, <<>>),
          Argv("clear", <<>>, {"all"}, FALSE, <<>>),
          Argv("frobnicate", <<>>, {}, FALSE, <<>>)}

\* The program is run with a command line
RunCall(argv) ==
    /\ (argv.command = "add" /\ argv.words # <<>>
            /\ isValidTitle(argv.words[1].title)) => nextId < MaxIds
    /\ run(argv)
    /\ UNCHANGED <<uiVars, other, tuiVars>>

\* Identifiers given to complete, remove and edit: the uuid of every todo
\* and one more, small integers, "1st", "abc"
CliIds ==
    {UuidText(n) : n \in 1..(MaxIds + 1)} \cup {IntText(k) : k \in 0..(MaxIds + 1)}
        \cup {IntThenText(1), WordText}

\* The commands given to execute()
CliCommands ==
    {ParsedCommand("add", NoId, TRUE, title, {}) :
        title \in {<<Run("a", 1)>>, <<Run(" ", 3)>>, <<Run("x", 101)>>}}
    \cup {ParsedCommand("complete", id, FALSE, <<>>, flags) :
            id \in CliIds, flags \in {{}, {"undo"}}}
    \cup {ParsedCommand("remove", id, FALSE, <<>>, {}) : id \in CliIds}
    \cup {ParsedCommand("edit", id, TRUE, <<Run("x", 100)>>, {}) : id \in CliIds}
    \cup {ParsedCommand("edit", IntText(1), hasTitle, title, {}) :
            hasTitle \in BOOLEAN, title \in {<<>>, <<Run(" ", 3)>>}}
    \cup {ParsedCommand("clear", NoId, FALSE, <<>>, flags) :
            flags \in {{}, {"completed"}, {"all"}}}
    \cup {ParsedCommand(command, NoId, FALSE, <<>>, {}) :
            command \in {"list", "stats", "help", "frobnicate"}}

\* Some of them: two that go well, and one of each kind that does not
FewCommands ==
    {ParsedCommand("add", NoId, TRUE, title, {}) :
        title \in {<<Run("a", 1)>>, <<Run("x", 101)>>}}
    \cup {ParsedCommand("complete", id, FALSE, <<>>, {}) :
            id \in {IntText(1), IntText(MaxIds + 1), IntThenText(1),
                    UuidText(MaxIds + 1)}}
    \cup {ParsedCommand("frobnicate", NoId, FALSE, <<>>, {})}

\* controller.execute(parsedCommand), every save succeeding
ExecuteCall(pc) ==
    /\ (pc.command = "add" /\ isValidTitle(pc.title)) => nextId < MaxIds
    /\ execute(pc, "none")
    /\ UNCHANGED <<uiVars, other, tuiVars>>

\* controller.execute(parsedCommand) with a save of the model failing, the
\* first such failure of this controller's model
ExecuteFailing(pc, fault) ==
    /\ ~saveFailed
    /\ (pc.command = "add" /\ isValidTitle(pc.title)) => nextId < MaxIds
    /\ execute(pc, fault)
    /\ UNCHANGED <<uiVars, other, tuiVars>>

\* new CLIController(storagePath): the next run of the program
NewController ==
    /\ todos' = loadTodos(fs)
    /\ ret' = NoRet
    /\ cli' = NoCli
    /\ UNCHANGED <<fs, nextId, now, saveFailed, proc, out, committed, uiVars, other, tuiVars>>

-----------------------------------------------------------------------------
(* BlessedUIFramework: the panel registry *)

\* enum PanelType
TODO_LIST == "todoList"
DETAILS == "details"
COMMAND_INPUT == "commandInput"
STATUS == "status"
PanelType == {TODO_LIST, DETAILS, COMMAND_INPUT, STATUS}

\* A UIPanel as the framework sees it: its type, whether it is focusable,
\* whether its focus() gives its element the toolkit's focus (the list panel
\* focuses a child, the status bar nothing), and its border colour
UIPanel(type, focusable, focusesElement) ==
    [type |-> type, focusable |-> focusable, focusesElement |-> focusesElement,
     borderFg |-> "gray"]

\* What is recorded: a call made on the framework, a call the framework
\* made on panel p (p = "screen" for the screen), or its assignment of p to
\* currentPanel
Event(e, p) == [e |-> e, p |-> p]

\* this.panels.get(type): position in the Map, 0 for undefined
PanelsGet(ps, type) ==
    IF \E i \in DOMAIN ps : ps[i].type = type
    THEN CHOOSE i \in DOMAIN ps : ps[i].type = type
    ELSE 0

\* this.panels.set(panel.type, panel): a new key goes last, an existing key
\* keeps its place
PanelsSet(ps, panel) ==
    IF PanelsGet(ps, panel.type) = 0 THEN Append(ps, panel)
    ELSE [ps EXCEPT ![PanelsGet(ps, panel.type)] = panel]

\* The framework as one value
UI(ps, cur, evs) == [panels |-> ps, currentPanel |-> cur, events |-> evs]

\* render(): this.screen.render()
render(u) == [u EXCEPT !.events = Append(@, Event("render", "screen"))]

\* updatePanelBorders(): the focused panel's border gets the primary colour
updatePanelBorders(u) ==
    [u EXCEPT !.panels =
        [i \in DOMAIN u.panels |->
            [u.panels[i] EXCEPT !.borderFg =
                IF u.panels[i].type = u.currentPanel THEN "blue" ELSE "gray"]]]

\* this.currentPanel = type, the assignment recorded
SetCurrent(u, type) ==
    [u EXCEPT !.currentPanel = type,
              !.events = Append(@, Event("set", type))]

OnElementFocusNoSet(u, type) ==
    render(updatePanelBorders(u))

\* The 'focus' handler registerPanel puts on a panel's element
OnElementFocus(u, type) ==
    render(updatePanelBorders(SetCurrent(u, type)))

\* panel.focus(), as the panels implement it
PanelFocus(u, i) ==
    LET called == [u EXCEPT !.events = Append(@, Event("focus", u.panels[i].type))]
    IN IF u.panels[i].focusesElement
       THEN OnElementFocus(called, u.panels[i].type)
       ELSE called

\* panel.blur(): the panels leave it to the toolkit
PanelBlur(u, i) ==
    [u EXCEPT !.events = Append(@, Event("blur", u.panels[i].type))]

switchToPanelAnyPanel(u, panelType) ==
    LET i == PanelsGet(u.panels, panelType)
        cur == PanelsGet(u.panels, u.currentPanel)
        blurred == IF cur # 0 THEN PanelBlur(u, cur) ELSE u
        focused == IF i = 0 THEN SetCurrent(blurred, panelType)
                   ELSE PanelFocus(SetCurrent(blurred, panelType), i)
    IN render(updatePanelBorders(focused))

switchToPanelFocusFirst(u, panelType) ==
    LET i == PanelsGet(u.panels, panelType)
        cur == PanelsGet(u.panels, u.currentPanel)
    IN IF i = 0 \/ ~u.panels[i].focusable THEN u
       ELSE LET blurred == IF cur # 0 THEN PanelBlur(u, cur) ELSE u
            IN render(updatePanelBorders(
                   SetCurrent(PanelFocus(blurred, i), panelType)))

switchToPanelNoBlur(u, panelType) ==
    LET i == PanelsGet(u.panels, panelType)
    IN IF i = 0 \/ ~u.panels[i].focusable THEN u
       ELSE render(updatePanelBorders(
                PanelFocus(SetCurrent(u, panelType), i)))

\* switchToPanel(panelType)
switchToPanel(u, panelType) ==
    LET i == PanelsGet(u.panels, panelType)
        cur == PanelsGet(u.panels, u.currentPanel)
    IN IF i = 0 \/ ~u.panels[i].focusable THEN u
       ELSE LET blurred == IF cur # 0 THEN PanelBlur(u, cur) ELSE u
            IN render(updatePanelBorders(
                   PanelFocus(SetCurrent(blurred, panelType), i)))

\* registerPanel(panel): into the Map, onto the screen, handlers set up
registerPanel(u, panel) ==
    [u EXCEPT !.panels = PanelsSet(@, panel),
              !.events = Append(@, Event("append", panel.type))]

\* const panelOrder in switchToNextPanel and switchToPreviousPanel
panelOrder == <<TODO_LIST, DETAILS, COMMAND_INPUT>>

\* array.indexOf(x): counted from 0, -1 if x is not in the array
IndexOf(array, x) ==
    IF \E k \in DOMAIN array : array[k] = x
    THEN (CHOOSE k \in DOMAIN array : array[k] = x) - 1
    ELSE -1

\* array[index], index counted from 0: "undefined" outside the array
At(array, index) ==
    IF index + 1 \in DOMAIN array THEN array[index + 1] ELSE "undefined"

switchToNextPanelNoWrap(u) ==
    switchToPanel(u, At(panelOrder, IndexOf(panelOrder, u.currentPanel) + 1))

\* switchToNextPanel(): tab
switchToNextPanel(u) ==
    LET currentIndex == IndexOf(panelOrder, u.currentPanel)
        nextIndex == (currentIndex + 1) % Len(panelOrder)
    IN switchToPanel(u, At(panelOrder, nextIndex))

\* switchToPreviousPanel(): shift-tab
switchToPreviousPanel(u) ==
    LET currentIndex == IndexOf(panelOrder, u.currentPanel)
        prevIndex == IF currentIndex = 0 THEN Len(panelOrder) - 1
                     ELSE currentIndex - 1
    IN switchToPanel(u, At(panelOrder, prevIndex))

\* panel.refresh(), as the application's panels implement it: the list panel
\* does nothing, the details panel displays its todo again if it has one
\* (which renders), the command input renders, the status bar shows its
\* statistics or its default text (either renders); the call and its return
\* are recorded
PanelRefresh(u, i, sh) ==
    LET type == u.panels[i].type
        called == [u EXCEPT !.events = Append(@, Event("refresh", type))]
        done == IF type = TODO_LIST THEN called
                ELSE IF type = DETAILS
                THEN (IF sh.currentTodo # <<>> THEN render(called) ELSE called)
                ELSE render(called)
    IN [done EXCEPT !.events = Append(@, Event("refreshed", type))]

\* this.panels.forEach(panel => panel.refresh()), from the i-th panel on
RECURSIVE ForEachRefresh(_, _, _)
ForEachRefresh(u, i, sh) ==
    IF i > Len(u.panels) THEN u
    ELSE ForEachRefresh(PanelRefresh(u, i, sh), i + 1, sh)

refreshAllPanelsRenderFirst(u, sh) == ForEachRefresh(render(u), 1, sh)

\* refreshAllPanels(): f5
refreshAllPanels(u, sh) == render(ForEachRefresh(u, 1, sh))

\* The calls made on the framework from outside: its public methods, the
\* toolkit's focus event, and the keys tab, shift-tab and f5
FrameworkCalls ==
    {"registerPanel", "switchToPanel", "nativeFocus", "switchToNextPanel",
     "switchToPreviousPanel", "refreshAllPanels"}

\* Number of calls made on the framework so far
UiCalls(evs) ==
    Cardinality({k \in DOMAIN evs : evs[k].e \in FrameworkCalls})

\* The framework as a call on it begins: the call is recorded
Called(name, arg) ==
    UI(panels, currentPanel, Append(events, Event(name, arg)))

\* The framework as the call has left it
Becomes(u) ==
    /\ panels' = u.panels
    /\ currentPanel' = u.currentPanel
    /\ events' = u.events

RegisterPanelCall(type, focusable, focusesElement) ==
    /\ UiCalls(events) < MaxUiCalls
    /\ Becomes(registerPanel(Called("registerPanel", type),
                             UIPanel(type, focusable, focusesElement)))
    /\ UNCHANGED <<storageVars, modelVars, shell, other, frontVars>>

SwitchToPanelCall(type) ==
    /\ UiCalls(events) < MaxUiCalls
    /\ Becomes(switchToPanel(Called("switchToPanel", type), type))
    /\ UNCHANGED <<storageVars, modelVars, shell, other, frontVars>>

\* The toolkit gives a registered panel's element the focus (a mouse click)
NativeFocus(type) ==
    /\ UiCalls(events) < MaxUiCalls
    /\ PanelsGet(panels, type) # 0
    /\ Becomes(OnElementFocus(Called("nativeFocus", type), type))
    /\ UNCHANGED <<storageVars, modelVars, shell, other, frontVars>>

SwitchToNextPanelCall ==
    /\ UiCalls(events) < MaxUiCalls
    /\ Becomes(switchToNextPanel(Called("switchToNextPanel", "screen")))
    /\ UNCHANGED <<storageVars, modelVars, shell, other, frontVars>>

SwitchToPreviousPanelCall ==
    /\ UiCalls(events) < MaxUiCalls
    /\ Becomes(switchToPreviousPanel(Called("switchToPreviousPanel", "screen")))
    /\ UNCHANGED <<storageVars, modelVars, shell, other, frontVars>>

RefreshAllPanelsCall ==
    /\ UiCalls(events) < MaxUiCalls
    /\ Becomes(refreshAllPanels(Called("refreshAllPanels", "screen"), shell))
    /\ UNCHANGED <<storageVars, modelVars, shell, other, frontVars>>

-----------------------------------------------------------------------------
(* TerminalUIApp: the interactive shell and what its panels hold *)

\* The panels' fields as their classes initialise them: the list panel's
\* todos (as handed over by the model), its selectedIndex (counted from 0),
\* the number of items in its list widget, the details panel's currentTodo
\* (<<>> for null), the status bar's stats
NoStats == [total |-> 0, completed |-> 0, pending |-> 0, percentage |-> 0]

NewShell ==
    [todos |-> <<>>, selectedIndex |-> 0, items |-> 0, currentTodo |-> <<>>,
     stats |-> NoStats]

\* A timeout in seconds
Seconds(ms) == ms \div 1000

\* No result message of handleCommand is due to be showing
NoResult == [message |-> "none", left |-> 0]

\* The status bar as its constructor leaves it (showDefaultStatus): the text
\* of the status line, the seconds left on the timers of its messages in the
\* order they were started, and as history the result message handleCommand
\* showed last with the seconds left of its duration
NewStatusLine == [text |-> "default", timers |-> <<>>, result |-> NoResult]

\* The application as one value: the framework, the panels' fields, the
\* status line
App(u, sh) == [ui |-> u, sh |-> sh, st |-> NewStatusLine]

\* What a panel reads in an object it holds; an object no longer in the
\* model's array reads as a todo with no id
Look(ts, h) ==
    IF h.live /\ h.at \notin DOMAIN ts
    THEN Todo(0, <<>>, FALSE, DateOf(0), Undefined)
    ELSE Deref(ts, h)

\* A panel method that pushes data is entered: recorded
Pushed(a, method, p) ==
    [a EXCEPT !.ui.events = Append(@, Event(method, p))]

\* this.framework.render() from inside a panel or the application
Draw(a) == [a EXCEPT !.ui = render(@)]

\* StatusBarPanel.showMessage(message, type, duration): the text, a render,
\* and a timer that puts the statistics or the default text back
showStatusMessage(a, message, duration) ==
    Draw([a EXCEPT !.st.text = message,
                   !.st.timers = Append(@, Seconds(duration))])

\* StatusBarPanel.showMessage(message, type) with the default duration
StatusShows(a) == showStatusMessage(a, "message", 3000)

\* StatusBarPanel.showPanelInfo(panelName, panelHelp)
showPanelInfo(a) == Draw([a EXCEPT !.st.text = "panel info"])

\* StatusBarPanel.showLoading(message)
showLoading(a) == Draw([a EXCEPT !.st.text = "loading"])

\* StatusBarPanel.updateStatusDisplay(): the statistics and the progress bar
updateStatusDisplay(a) == Draw([a EXCEPT !.st.text = "stats"])

\* What the timer of a message does when it fires
RestoreStatus(stats) == IF stats.total > 0 THEN "stats" ELSE "default"

\* Math.round((completed / total) * 100)
Percentage(total, completed) ==
    IF total > 0 THEN (200 * completed + total) \div (2 * total) ELSE 0

\* StatusBarPanel.updateStats(total, completed)
updateStats(a, total, completed) ==
    updateStatusDisplay([Pushed(a, "updateStats", STATUS) EXCEPT !.sh.stats =
            [total |-> total, completed |-> completed,
             pending |-> total - completed,
             percentage |-> Percentage(total, completed)]])

\* TodoDetailsPanel.displayTodo(todo): null shows the empty state and does
\* not render
displayTodo(a, todo) ==
    LET shown == [Pushed(a, "displayTodo", DETAILS) EXCEPT !.sh.currentTodo = todo]
    IN IF todo = <<>> THEN shown ELSE Draw(shown)

\* The callback TerminalUIApp gives to onSelectionChanged
OnSelectionChange(a, todo) ==
    IF todo = <<>> THEN displayTodo(a, todo)
    ELSE showPanelInfo(displayTodo(a, todo))

\* TodoListPanel.getSelectedTodo()
getSelectedTodo(sh) ==
    IF sh.selectedIndex >= 0 /\ sh.selectedIndex < Len(sh.todos)
    THEN <<sh.todos[sh.selectedIndex + 1]>>
    ELSE <<>>

updateTodosKeepOld(a, newTodos) == Draw(Pushed(a, "updateTodos", TODO_LIST))

\* TodoListPanel.updateTodos(todos)
updateTodos(a, newTodos) ==
    LET wasEmpty == a.sh.items = 0
        held == [Pushed(a, "updateTodos", TODO_LIST) EXCEPT !.sh.todos = newTodos]
    IN IF Len(newTodos) = 0
       THEN Draw([held EXCEPT !.sh.selectedIndex = -1, !.sh.items = 2])
       ELSE LET capped == IF held.sh.selectedIndex >= Len(newTodos)
                          THEN Len(newTodos) - 1 ELSE held.sh.selectedIndex
                index == IF capped < 0 THEN 0 ELSE capped
                selected == [held EXCEPT !.sh.selectedIndex = index,
                                         !.sh.items = Len(newTodos)]
            IN Draw(IF wasEmpty
                    THEN OnSelectionChange(selected, <<newTodos[index + 1]>>)
                    ELSE selected)

\* TodoListPanel.selectTodo(index)
selectTodo(a, index) ==
    IF index >= 0 /\ index < Len(a.sh.todos)
    THEN OnSelectionChange([a EXCEPT !.sh.selectedIndex = index],
                           <<a.sh.todos[index + 1]>>)
    ELSE a

\* todos.find(t => t.id === id) over what getAll() returned
FindHeld(ts, objs, id) ==
    IF \E k \in DOMAIN objs : Look(ts, objs[k]).id = id
    THEN <<objs[CHOOSE k \in DOMAIN objs :
                    /\ Look(ts, objs[k]).id = id
                    /\ \A j \in 1..(k - 1) : Look(ts, objs[j]).id # id]>>
    ELSE <<>>

\* TerminalUIApp.refreshAllData(), the model's array being ts; its beginning
\* and its end are recorded
refreshAllData(a, ts) ==
    LET all == getAll(ts)
        selectedTodo == getSelectedTodo(a.sh)
        listed == updateTodos(Pushed(a, "refreshAllData", "app"), all)
        completed == Cardinality({k \in DOMAIN all : Look(ts, all[k]).completed})
        counted == updateStats(listed, Len(all), completed)
        detailed == IF selectedTodo # <<>>
                    THEN displayTodo(counted,
                             FindHeld(ts, all, Look(ts, selectedTodo[1]).id))
                    ELSE counted
    IN Pushed(Draw(detailed), "refreshAllDataDone", "app")

\* The four panels of the application
TodoListPanel == UIPanel(TODO_LIST, TRUE, FALSE)
TodoDetailsPanel == UIPanel(DETAILS, TRUE, TRUE)
CommandInputPanel == UIPanel(COMMAND_INPUT, TRUE, FALSE)
StatusBarPanel == UIPanel(STATUS, FALSE, FALSE)

\* TerminalUIApp.setupPanels()
setupPanels(u) ==
    switchToPanel(
        registerPanel(registerPanel(registerPanel(registerPanel(u,
            TodoListPanel), TodoDetailsPanel), CommandInputPanel), StatusBarPanel),
        TODO_LIST)

\* new TerminalUIApp(), its model having loaded ts: the status bar shows its
\* default text, the panels are set up, the data is pushed (loadInitialData)
NewApp(ts) ==
    LET built == render(UI(<<>>, TODO_LIST, <<Event("new", "app")>>))
    IN showStatusMessage(refreshAllData(App(setupPanels(built), NewShell), ts),
                         "Todo Terminal UI ready!", 2000)

\* The application as a handler of it begins: the log starts again
Started(handler) ==
    [App(UI(panels, currentPanel, <<Event(handler, "app")>>), shell)
        EXCEPT !.st = [statusLine EXCEPT !.result = NoResult]]

\* The status line as the handler has left it
StatusBecomes(a) == statusLine' = a.st

\* The application as the handler has left it
AppBecomes(a) ==
    /\ panels' = a.ui.panels
    /\ currentPanel' = a.ui.currentPanel
    /\ events' = a.ui.events
    /\ shell' = a.sh

\* Titles typed after 'add': a plain one and one that is too long
ShellTitles == {<<Run("a", 1)>>, <<Run("x", 101)>>}

\* How a failing save of the shell's model fails: on writing the temporary
\* file, on renaming it
ShellFaults == {"write", "rename"}

\* handleCommand up to the command itself: showLoading
Loading == showLoading(Started("handleCommand"))

\* The result of a command is shown for 2 seconds
ResultShows(a) ==
    [showStatusMessage(a, "result", 2000)
        EXCEPT !.st.result = [message |-> "result", left |-> Seconds(2000)]]

\* handleCommand after the command: the result is shown and the data pushed
\* if nothing was thrown, the error is shown otherwise
Executed(ok, ts) ==
    IF ok THEN refreshAllData(ResultShows(Loading), ts)
    ELSE showStatusMessage(Loading, "error", 3000)

\* handleCommand('add <title>')
CommandAdd(title, fault) ==
    /\ isValidTitle(title) => nextId < MaxIds
    /\ add(title, fault)
    /\ AppBecomes(Executed(ret'.outcome = "return", todos'))
    /\ UNCHANGED <<other, frontVars>>

\* handleCommand('complete <id>'): 'Todo not found' is thrown for null
CommandComplete(id, fault) ==
    /\ toggleComplete(id, fault)
    /\ AppBecomes(Executed(ret'.outcome = "return" /\ ret'.objs # <<>>, todos'))
    /\ UNCHANGED <<other, frontVars>>

\* handleCommand('delete <id>') or 'remove <id>'
CommandDelete(id, fault) ==
    /\ delete(id, fault)
    /\ AppBecomes(Executed(ret'.outcome = "return", todos'))
    /\ UNCHANGED <<other, frontVars>>

\* handleCommand('clear')
CommandClear(fault) ==
    /\ clear(fault)
    /\ AppBecomes(Executed(ret'.outcome = "return", todos'))
    /\ UNCHANGED <<other, frontVars>>

\* space on the list with a todo selected: toggleTodoCompletion(selectedTodo)
ToggleKey(fault) ==
    /\ currentPanel = TODO_LIST
    /\ getSelectedTodo(shell) # <<>>
    /\ toggleComplete(Look(todos, getSelectedTodo(shell)[1]).id, fault)
    /\ AppBecomes(
          LET a == Started("toggleTodoCompletion")
          IN IF ret'.outcome = "throw" THEN StatusShows(a)
             ELSE IF ret'.objs = <<>> THEN a
             ELSE StatusShows(refreshAllData(a, todos')))
    /\ UNCHANGED <<other, frontVars>>

\* d on the list with a todo selected, the question answered with Enter:
\* deleteTodo(todo, index), confirmed
DeleteKeyConfirmed(fault) ==
    /\ getSelectedTodo(shell) # <<>>
    /\ delete(Look(todos, getSelectedTodo(shell)[1]).id, fault)
    /\ AppBecomes(
          LET a == Started("deleteTodo")
              index == shell.selectedIndex
              shown == StatusShows(refreshAllData(a, todos'))
              newIndex == IF index < Len(todos') - 1 THEN index
                          ELSE Len(todos') - 1
          IN Draw(IF ret'.outcome = "throw" THEN StatusShows(a)
                  ELSE IF Len(todos') > 0 THEN selectTodo(shown, newIndex)
                  ELSE displayTodo(shown, <<>>)))
    /\ UNCHANGED <<other, frontVars>>

\* r on the list: handleTodoAction('refresh')
RefreshKey ==
    /\ AppBecomes(StatusShows(refreshAllData(Started("handleTodoAction"), todos)))
    /\ UNCHANGED <<storageVars, modelVars, other, frontVars>>

\* f5 as the framework handles it: refreshAllPanels()
F5Key ==
    /\ AppBecomes(App(refreshAllPanels(Started("refreshAllPanels").ui, shell), shell))
    /\ UNCHANGED <<storageVars, modelVars, other, frontVars>>

\* Enter on an item of the list: the list's 'select' event
SelectEvent(index) ==
    /\ index < Len(shell.todos)
    /\ AppBecomes(
          LET a == Started("select")
          IN OnSelectionChange([a EXCEPT !.sh.selectedIndex = index],
                               <<shell.todos[index + 1]>>))
    /\ UNCHANGED <<storageVars, modelVars, other, frontVars>>

\* Titles typed into the edit form of the details panel
EditTitles ==
    { <<Run("b", 1)>>, <<Run(" ", 1), Run("x", 100), Run(" ", 1)>>, <<Run(" ", 2)>> }

\* The callback TerminalUIApp gives to onTodoUpdate: the todo it is handed
\* is not used
OnTodoUpdate(a, updatedTodo, ts) == StatusShows(refreshAllData(a, ts))

\* TodoDetailsPanel.saveChanges(), the title input holding value and the
\* clock reading at; a message of the panel is a box drawn on the screen
saveChanges(a, value, at, ts) ==
    LET newTitle == Trim(value)
        edited == <<[a.sh.currentTodo[1] EXCEPT !.val.title = newTitle,
                                                !.val.updatedAt = DateOf(at)]>>
        updated == OnTodoUpdate([a EXCEPT !.sh.currentTodo = edited], edited, ts)
    IN IF a.sh.currentTodo = <<>> THEN a
       ELSE IF newTitle = <<>> THEN Draw(a)
       ELSE Draw(displayTodo(Draw(updated), updated.sh.currentTodo))

\* e on the details panel showing a todo, a title typed, Ctrl+S
SaveChangesKey(value) ==
    /\ currentPanel = DETAILS
    /\ shell.currentTodo # <<>>
    /\ AppBecomes(saveChanges(Started("saveChanges"), value, now, todos))
    /\ UNCHANGED <<storageVars, modelVars, other, frontVars>>

\* The program is started again: new TerminalUIApp()
Restart ==
    /\ todos' = loadTodos(fs)
    /\ ret' = NoRet
    /\ saveFailed' = FALSE
    /\ AppBecomes(NewApp(todos'))
    /\ UNCHANGED <<fs, nextId, now, proc, out, committed, other, frontVars>>

-----------------------------------------------------------------------------
(* CommandInputPanel and handleCommand: commands typed and submitted *)

\* What the input box holds: blanks in front, the command word, the title
\* after it; or the feedback '[Executed: ...]' on such a command
Text(pad, cmd, title) == [pad |-> pad, cmd |-> cmd, title |-> title, feedback |-> FALSE]
Empty == Text(0, "", <<>>)
TrimText(t) == [t EXCEPT !.pad = 0]
FeedbackOn(command) == [command EXCEPT !.feedback = TRUE]

\* The panel just constructed
NewInput ==
    [value |-> Empty, timers |-> <<>>, commandHistory |-> <<>>, historyIndex |-> -1]

\* TerminalUIApp.handleCommand(command), every save succeeding
handleCommand(command) ==
    IF command.cmd = "add" /\ command.title # <<>>
    THEN /\ isValidTitle(command.title) => nextId < MaxIds
         /\ add(command.title, "none")
         /\ AppBecomes(Executed(ret'.outcome = "return", todos'))
         /\ StatusBecomes(Executed(ret'.outcome = "return", todos'))
    ELSE IF command.cmd = "clear"
    THEN /\ clear("none")
         /\ AppBecomes(Executed(ret'.outcome = "return", todos'))
         /\ StatusBecomes(Executed(ret'.outcome = "return", todos'))
    ELSE /\ AppBecomes(Executed(command.cmd \in {"list", "stats", "help"}, todos))
         /\ StatusBecomes(Executed(command.cmd \in {"list", "stats", "help"}, todos))
         /\ UNCHANGED <<storageVars, modelVars>>

\* CommandInputPanel.executeCommand(command), up to the call of onCommand
Remembered(inp, command) ==
    [inp EXCEPT
        !.commandHistory =
            IF @ # <<>> /\ @[Len(@)] = command THEN @
            ELSE IF Len(@) + 1 > 100 THEN Tail(Append(@, command))
            ELSE Append(@, command),
        !.historyIndex = -1]

\* CommandInputPanel.showFeedback(message, duration): the value is read, the
\* message set, and a timer is started that sets the value read
showFeedback(inp, message, duration) ==
    LET originalValue == inp.value
    IN [inp EXCEPT !.value = message,
                   !.timers = Append(@, [left |-> Seconds(duration),
                                         value |-> originalValue])]

\* inputBox.clearValue()
clearValue(inp) == [inp EXCEPT !.value = Empty]

\* CommandInputPanel.navigateHistory(direction)
navigateHistory(inp, direction) ==
    IF inp.commandHistory = <<>> THEN inp
    ELSE IF direction = -1
    THEN LET index == IF inp.historyIndex = -1 THEN Len(inp.commandHistory) - 1
                      ELSE IF inp.historyIndex > 0 THEN inp.historyIndex - 1
                      ELSE inp.historyIndex
         IN [inp EXCEPT !.historyIndex = index,
                        !.value = inp.commandHistory[index + 1]]
    ELSE IF inp.historyIndex = -1 THEN inp
    ELSE IF inp.historyIndex + 1 >= Len(inp.commandHistory)
    THEN clearValue([inp EXCEPT !.historyIndex = -1])
    ELSE [inp EXCEPT !.historyIndex = @ + 1,
                     !.value = inp.commandHistory[inp.historyIndex + 2]]

\* What the user types into the box
InputTexts ==
    { Text(0, "add", <<Run("a", 1)>>), Text(1, "list", <<>>), Text(0, "clear", <<>>),
      Text(0, "bogus", <<>>), Text(2, "", <<>>), Empty }

\* The user edits the text of the box
TypeText(text) ==
    /\ input.value # text
    /\ input' = [input EXCEPT !.value = text]
    /\ UNCHANGED <<storageVars, modelVars, uiVars, other, cli, view, statusLine>>

\* Enter in the box holding a command: executeCommand, then clearValue
EnterKey ==
    LET command == TrimText(input.value)
    IN /\ command # Empty
       /\ Len(input.timers) < MaxPending
       /\ Len(statusLine.timers) < MaxPending
       /\ Len(Remembered(input, command).commandHistory) <= MaxHistory
       /\ handleCommand(command)
       /\ input' = clearValue(showFeedback(Remembered(input, command),
                                           FeedbackOn(command), 2000))
       /\ UNCHANGED <<other, cli, view>>

\* up and down in the box
HistoryKey(direction) ==
    /\ navigateHistory(input, direction) # input
    /\ input' = navigateHistory(input, direction)
    /\ UNCHANGED <<storageVars, modelVars, uiVars, other, cli, view, statusLine>>

\* A timer is due, of the box or of the status line
Due(timers) == \E k \in DOMAIN timers : timers[k].left = 0
DueStatus(timers) == \E k \in DOMAIN timers : timers[k] = 0

\* The timers without the first of them that is due
WithoutDue(timers, isDue(_)) ==
    LET k == CHOOSE i \in DOMAIN timers :
                 isDue(timers[i]) /\ \A j \in 1..(i - 1) : ~isDue(timers[j])
    IN SubSeq(timers, 1, k - 1) \o SubSeq(timers, k + 1, Len(timers))

IsDue(timer) == timer.left = 0
IsZero(left) == left = 0

\* The timer of a feedback fires: the value it read is set
FeedbackTimer ==
    /\ Due(input.timers)
    /\ LET k == CHOOSE i \in DOMAIN input.timers :
                    IsDue(input.timers[i]) /\ \A j \in 1..(i - 1) : ~IsDue(input.timers[j])
       IN input' = [input EXCEPT !.value = input.timers[k].value,
                                 !.timers = WithoutDue(@, IsDue)]
    /\ UNCHANGED <<storageVars, modelVars, uiVars, other, cli, view, statusLine>>

\* The timer of a message of the status line fires
StatusTimer ==
    /\ DueStatus(statusLine.timers)
    /\ statusLine' = [statusLine EXCEPT !.text = RestoreStatus(shell.stats),
                                        !.timers = WithoutDue(@, IsZero)]
    /\ UNCHANGED <<storageVars, modelVars, uiVars, other, cli, view, input>>

\* A second passes, no timer being due
Second ==
    /\ ~Due(input.timers) /\ ~DueStatus(statusLine.timers)
    /\ input.timers # <<>> \/ statusLine.timers # <<>>
    /\ input' = [input EXCEPT !.timers = [k \in DOMAIN @ |-> [@[k] EXCEPT !.left = @ - 1]]]
    /\ statusLine' = [statusLine EXCEPT
            !.timers = [k \in DOMAIN @ |-> @[k] - 1],
            !.result = IF @.left > 1 THEN [@ EXCEPT !.left = @ - 1] ELSE NoResult]
    /\ UNCHANGED <<storageVars, modelVars, uiVars, other, cli, view>>

-----------------------------------------------------------------------------
(* TodoView: notifications in the title bar *)

\* The title box as the constructor fills it
TitleContent == [type |-> "title", message |-> "Todo Manager v1.0"]

\* The styled text of a notification: the mark and the colour follow the type
Styled(message, type) ==
    [type |-> IF type \in {"success", "error"} THEN type ELSE "info",
     message |-> message]

\* The view just constructed: no timer pending
NewView == [title |-> TitleContent, timers |-> <<>>]

\* TodoView.showMessage(message, type): the content is read, the message set,
\* and a timer of 2 seconds is started that sets the content read
showMessage(v, message, type) ==
    LET originalContent == v.title
    IN [title |-> Styled(message, type),
        timers |-> Append(v.timers, originalContent)]

ViewMessages == {"Loading...", "Complete"}
ViewTypes == {"info", "success", "error"}

ShowMessageCall(message, type) ==
    /\ Len(view.timers) < MaxPending
    /\ view' = showMessage(view, message, type)
    /\ UNCHANGED <<storageVars, modelVars, uiVars, other, cli, input, statusLine>>

\* The oldest pending timer fires: every timer runs 2 seconds, so they fire
\* in the order of the calls
RestoreTimer ==
    /\ view.timers # <<>>
    /\ view' = [title |-> Head(view.timers), timers |-> Tail(view.timers)]
    /\ UNCHANGED <<storageVars, modelVars, uiVars, other, cli, input, statusLine>>

-----------------------------------------------------------------------------
(* Specifications *)

Init ==
    /\ fs = EmptyFs
    /\ proc = [p \in Procs |-> Idle]
    /\ out = [p \in Procs |-> NoOut]
    /\ committed = [some |-> FALSE, coll |-> <<>>]
    /\ todos = <<>>
    /\ nextId = 0
    /\ now = 0
    /\ ret = NoRet
    /\ saveFailed = FALSE
    /\ panels = <<>>
    /\ currentPanel = TODO_LIST
    /\ events = <<>>
    /\ shell = NewShell
    /\ other = NoOther
    /\ cli = NoCli
    /\ view = NewView
    /\ input = NewInput
    /\ statusLine = NewStatusLine

\* The application just constructed, no storage file
InitApp ==
    /\ fs = EmptyFs
    /\ proc = [p \in Procs |-> Idle]
    /\ out = [p \in Procs |-> NoOut]
    /\ committed = [some |-> FALSE, coll |-> <<>>]
    /\ todos = <<>>
    /\ nextId = 0
    /\ now = 0
    /\ ret = NoRet
    /\ saveFailed = FALSE
    /\ panels = NewApp(<<>>).ui.panels
    /\ currentPanel = NewApp(<<>>).ui.currentPanel
    /\ events = NewApp(<<>>).ui.events
    /\ shell = NewApp(<<>>).sh
    /\ other = NoOther
    /\ cli = NoCli
    /\ view = NewView
    /\ input = NewInput
    /\ statusLine = NewApp(<<>>).st

\* One process saving and loading, killed at any point
NextCrash ==
    \/ StorageStep("p1")
    \/ Kill("p1")

SpecCrash == Init /\ [][NextCrash]_vars

\* The same, with other programs writing the file between calls
NextExternal ==
    \/ StorageStep("p1")
    \/ Kill("p1")
    \/ \E data \in ExternalContents : ExternalWrite(data)

SpecExternal == Init /\ [][NextExternal]_vars

\* Two processes saving to the same path, interleaved call by call
NextConcurrent ==
    \E p \in Procs :
        \/ \E c \in ConcurrentCollections : SaveCall(p, c)
        \/ SaveStep(p)

SpecConcurrent == Init /\ [][NextConcurrent]_vars

\* One TodoModel at a time on the storage path, every save succeeding:
\* mutating calls, restarts, time
NextModel ==
    \/ Mutation({"none"})
    \/ NewModel
    \/ Tick

SpecModel == Init /\ [][NextModel]_vars

\* The same, with a caller that reads and assigns to what it was handed
NextCaller ==
    \/ Mutation({"none"})
    \/ Reading
    \/ \E k \in 1..MaxIds, field \in AssignableFields : AssignField(k, field)

SpecCaller == Init /\ [][NextCaller]_vars

\* Longer collections with two titles and no clock: adding, deleting, editing,
\* completing, restarting
NextOrder ==
    \/ AddUpTo(MaxOrderIds, <<Run("a", 1)>>, "none")
    \/ \E id \in 1..MaxOrderIds : delete(id, "none") /\ UNCHANGED <<uiVars, other, frontVars>>
    \/ \E id \in 1..MaxOrderIds : toggleComplete(id, "none") /\ UNCHANGED <<uiVars, other, frontVars>>
    \/ \E id \in 1..MaxOrderIds :
            updateTitle(id, <<Run("x", 100)>>, "none") /\ UNCHANGED <<uiVars, other, frontVars>>
    \/ NewModel

SpecOrder == Init /\ [][NextOrder]_vars

\* A mutating call whose save fails, the first such failure of the instance
FailingMutation ==
    /\ ~saveFailed
    /\ MutationOf(FaultyTitles, RealFaults)

\* One TodoModel, one of whose saves fails at some step of Storage.save
NextFaulty ==
    \/ MutationOf(FaultyTitles, {"none"})
    \/ FailingMutation

SpecFaulty == Init /\ [][NextFaulty]_vars

\* Two TodoModel instances on the same path, called in turn, either of them
\* constructed anew at any time
NextTwo ==
    \/ CalledMutation
    \/ Turn
    \/ Reconstruct

SpecTwo == Init /\ [][NextTwo]_vars

\* The command line program: commands executed one after another by one
\* controller or by a new one, one save failing
NextCli ==
    \/ \E pc \in CliCommands : ExecuteCall(pc)
    \/ \E argv \in CliLines : RunCall(argv)
    \/ NewController

SpecCli == Init /\ [][NextCli]_vars

\* One controller, one save of its model failing: a few commands that go
\* well, and any command at the failure
NextCliFaulty ==
    \/ \E pc \in FewCommands : ExecuteCall(pc)
    \/ \E pc \in CliCommands, fault \in RealFaults : ExecuteFailing(pc, fault)

SpecCliFaulty == Init /\ [][NextCliFaulty]_vars

\* The interactive shell with its command input: text typed, submitted with
\* Enter, taken from the history; time passing and timers firing
NextCommand ==
    \/ \E text \in InputTexts : TypeText(text)
    \/ EnterKey
    \/ \E direction \in {-1, 1} : HistoryKey(direction)
    \/ FeedbackTimer
    \/ StatusTimer
    \/ Second

SpecCommand == InitApp /\ [][NextCommand]_vars

\* A TodoView: messages shown at any time, their timers firing
NextView ==
    \/ \E message \in ViewMessages, type \in ViewTypes : ShowMessageCall(message, type)
    \/ RestoreTimer

SpecView == Init /\ [][NextView]_vars

\* The UI framework: panels registered, focus switched by the framework and
\* by the toolkit
NextPanels ==
    \/ \E type \in PanelType, focusable \in BOOLEAN, focusesElement \in BOOLEAN :
            RegisterPanelCall(type, focusable, focusesElement)
    \/ \E type \in PanelType : SwitchToPanelCall(type)
    \/ \E type \in PanelType : NativeFocus(type)

SpecPanels == Init /\ [][NextPanels]_vars

\* The framework of the constructed application: its keys and methods, the
\* toolkit's focus events, further panels registered
NextApp ==
    \/ NextPanels
    \/ SwitchToNextPanelCall
    \/ SwitchToPreviousPanelCall
    \/ RefreshAllPanelsCall

SpecApp == InitApp /\ [][NextApp]_vars

\* The interactive shell with the list panel focused, every save succeeding:
\* typed commands and keys, restarts; the log holds what the last handler did
NextShell ==
    \/ \E title \in ShellTitles : CommandAdd(title, "none")
    \/ \E id \in IdInputs : CommandComplete(id, "none")
    \/ \E id \in IdInputs : CommandDelete(id, "none")
    \/ CommandClear("none")
    \/ ToggleKey("none")
    \/ DeleteKeyConfirmed("none")
    \/ RefreshKey
    \/ F5Key
    \/ \E index \in 0..(MaxIds - 1) : SelectEvent(index)
    \/ Restart

SpecShell == InitApp /\ [][NextShell]_vars

\* The interactive shell with its details panel: todos added, completed and
\* deleted by command, an item selected, the focus moved by tab, the shown
\* todo edited and saved
NextEdit ==
    \/ CommandAdd(<<Run("a", 1)>>, "none")
    \/ \E id \in IdInputs : CommandComplete(id, "none")
    \/ \E id \in IdInputs : CommandDelete(id, "none")
    \/ \E index \in 0..(MaxIds - 1) : SelectEvent(index)
    \/ SwitchToNextPanelCall
    \/ \E value \in EditTitles : SaveChangesKey(value)

SpecEdit == InitApp /\ [][NextEdit]_vars

\* A handler whose save fails, the first such failure
FailingHandler ==
    \E fault \in ShellFaults :
        \/ ~saveFailed /\ CommandAdd(<<Run("a", 1)>>, fault)
        \/ \E id \in IdInputs : ~saveFailed /\ CommandComplete(id, fault)
        \/ \E id \in IdInputs : ~saveFailed /\ CommandDelete(id, fault)
        \/ ~saveFailed /\ CommandClear(fault)
        \/ ~saveFailed /\ ToggleKey(fault)
        \/ ~saveFailed /\ DeleteKeyConfirmed(fault)

\* The shell, one of whose model's saves fails: the model has changed and
\* nothing is pushed until the user has the data refreshed
NextStale ==
    \/ CommandAdd(<<Run("a", 1)>>, "none")
    \/ \E id \in IdInputs : CommandComplete(id, "none")
    \/ CommandClear("none")
    \/ FailingHandler
    \/ RefreshKey
    \/ F5Key

SpecStale == InitApp /\ [][NextStale]_vars

-----------------------------------------------------------------------------
(* Storage: crash safety, concurrent writers, failures, tolerant load *)

CommittedColl == IF committed.some THEN committed.coll ELSE <<>>

\* What load() makes of a collection that was written out completely
Decoded(coll) == [i \in DOMAIN coll |-> ReviveTodo(StringifyTodo(coll[i]))]

\* C1: with one process saving and being killed at any point, a later load()
\* returns exactly the collection passed to the last save whose rename
\* completed (the empty sequence if none completed).
C1_LoadReturnsLastCompletedSave ==
    out["p1"].op = "load" => out["p1"].value = CommittedColl

\* Supporting fact for C1: whatever the kills, load() returns what it decodes
\* from the complete document of the last completed save, never anything
\* taken from a partly written file.
CrashNeverShowsPartialContent ==
    /\ FinalContent(fs) =
          IF committed.some THEN [exists |-> TRUE, data |-> Stringify(committed.coll)]
          ELSE NoContent
    /\ out["p1"].op = "load" => out["p1"].value = Decoded(CommittedColl)

\* C2: with two processes saving concurrently, at every instant the storage
\* file is absent or holds the complete serialization of a collection that
\* was passed to save; never an empty, truncated or mixed file.
C2_ReaderSeesWholeCollection ==
    existsSync(fs, "final") =>
        \E c \in ConcurrentCollections : readFileSync(fs, "final") = Stringify(c)

\* C3: a save that fails while creating the directory, serializing or writing
\* the temporary file throws to its caller and leaves the storage file's
\* content as it was when save was entered.
C3_FailedSaveKeepsFile ==
    \A p \in Procs :
        (out[p].op = "save" /\ out[p].at \in {"mkdir", "stringify", "open", "write"})
            => (out[p].outcome = "threw" /\ out[p].kept)

\* a save failed in the middle of writing the temp file, over an existing file
C3_Witness ==
    /\ out["p1"].op = "save"
    /\ out["p1"].at = "write"
    /\ committed.some
    /\ Len(committed.coll) = 2
    /\ existsSync(fs, "tmp")
    /\ Len(readFileSync(fs, "tmp")) = 2

\* The storage file cannot be used: absent, not JSON, or without a todos array
Unusable(f) ==
    \/ ~existsSync(f, "final")
    \/ LET parsed == JSONparse(readFileSync(f, "final"))
       IN \/ ~parsed.ok
          \/ parsed.v.t # "object"
          \/ parsed.v.todos.t # "array"

\* C4: load() never raises, and returns the empty sequence when the file is
\* absent, cannot be parsed or has no todos array, whatever saves, kills and
\* external writes came before.
C4_LoadNeverRaises ==
    out["p1"].op = "load" =>
        /\ out["p1"].outcome = "returned"
        /\ Unusable(fs) => out["p1"].value = <<>>

\* load() has answered a file that parses but holds null where a todo belongs
C4_Witness ==
    /\ out["p1"].op = "load"
    /\ FinalContent(fs) = [exists |-> TRUE,
                           data |-> <<HeadChunk, ItemChunk(JNull), TailChunk>>]

\* load() has answered a file cut off before its end
C4_WitnessTruncated ==
    /\ out["p1"].op = "load"
    /\ FinalContent(fs) = [exists |-> TRUE,
                           data |-> <<HeadChunk, ItemChunk(StringifyTodo(TodoB))>>]

-----------------------------------------------------------------------------
(* TodoModel: persistence round trip, validation, copies handed to callers *)

Values(ts, objs) == [k \in DOMAIN objs |-> Deref(ts, objs[k])]

\* C5: for every collection the model reaches by add/toggleComplete/
\* updateTitle/delete, loading what save wrote for it yields a sequence equal
\* to it in length, order and every field (id, title, completed, createdAt,
\* updatedAt).
C5_RoundTripExact ==
    load(save(fs, todos, "none").fs).value = todos

\* id, title, completed and createdAt of each todo, in order
Essentials(ts) ==
    [i \in DOMAIN ts |-> [id |-> ts[i].id, title |-> ts[i].title,
                          completed |-> ts[i].completed,
                          createdAt |-> ts[i].createdAt]]

\* C6: after successful mutating calls, a new TodoModel on the same path
\* returns from getAll() the same todos (id, title, completed, createdAt) in
\* the same order as the original instance.
C6_NewModelSeesSameTodos ==
    Essentials(Values(loadTodos(fs), getAll(loadTodos(fs))))
        = Essentials(Values(todos, getAll(todos)))

\* two todos were added, one edited and completed, the other deleted
C6_Witness ==
    /\ ret.op = "delete"
    /\ ret.flag
    /\ ret.saved
    /\ Len(todos) = 1
    /\ todos[1].id = 2
    /\ todos[1].completed
    /\ todos[1].title = <<Run("x", 100)>>

InvalidTitle(s) == StrLen(Trim(s)) = 0 \/ StrLen(Trim(s)) > 100

\* C7: for every title whose trimmed length is 0 or above 100 and every id,
\* add and updateTitle raise a validation error, save nothing and leave the
\* in-memory collection and the storage file unchanged.
C7_InvalidTitleRejected ==
    [][\A s \in TitleInputs :
          (InvalidTitle(s) /\ (add(s, "none") \/ \E id \in IdInputs : updateTitle(id, s, "none")))
              => /\ ret'.outcome = "throw"
                 /\ ret'.error = "validation"
                 /\ ~ret'.saved
                 /\ todos' = todos
                 /\ fs' = fs]_vars

\* updateTitle has rejected a title while two todos were stored
C7_Witness ==
    /\ ret.op = "updateTitle"
    /\ ret.error = "validation"
    /\ Len(todos) = 2
    /\ Len(loadTodos(fs)) = 2

TitleInRange(todo) ==
    /\ StrLen(todo.title) >= 1
    /\ StrLen(todo.title) <= 100
    /\ todo.title = Trim(todo.title)

\* C8: starting from empty storage, every todo in memory and in the storage
\* file has a title of length 1..100 that equals its trimmed form.
C8_TitlesInRange ==
    /\ \A i \in DOMAIN todos : TitleInRange(todos[i])
    /\ \A i \in DOMAIN loadTodos(fs) : TitleInRange(loadTodos(fs)[i])

\* a padded title of 100 characters after trimming has been stored by an edit
C8_Witness ==
    /\ ret.op = "updateTitle"
    /\ ret.saved
    /\ \E i \in DOMAIN todos :
          /\ todos[i].title = <<Run("x", 100)>>
          /\ loadTodos(fs)[i].title = <<Run("x", 100)>>

\* What the reading calls answer and what a save would write
Observed(ts) ==
    [all |-> Values(ts, getAll(ts)),
     byId |-> [id \in IdInputs |-> Values(ts, getById(ts, id))],
     byStatus |-> [b \in BOOLEAN |-> Values(ts, getByStatus(ts, b))],
     written |-> Stringify(ts)]

AssignStep == \E k \in 1..MaxIds, field \in AssignableFields : AssignField(k, field)

C10_MutatorsReturnCopies ==
    [][(ret.op \in {"add", "toggleComplete", "updateTitle"} /\ AssignStep)
          => Observed(todos') = Observed(todos)]_vars

\* Supporting fact for C10: it does hold of updateTitle, which returns a copy
UpdateTitleReturnsCopy ==
    [][(ret.op = "updateTitle" /\ AssignStep)
          => Observed(todos') = Observed(todos)]_vars

-----------------------------------------------------------------------------
(* TodoModel: delete, unknown ids, identifiers, order, timestamps, counts *)

Ids(ts) == {ts[i].id : i \in DOMAIN ts}

\* ts without its element at position i
Without(ts, i) == SubSeq(ts, 1, i - 1) \o SubSeq(ts, i + 1, Len(ts))

\* C11: delete(id) on an id in the collection returns true and removes exactly
\* that todo; delete of the same id called again right after returns false
\* and leaves the collection and the storage file as they were.
C11_DeleteTwice ==
    [][\A id \in IdInputs :
          /\ (id \in Ids(todos) /\ delete(id, "none"))
                => /\ ret'.flag
                   /\ ret'.saved
                   /\ todos' = Without(todos, Find(todos, id))
                   /\ loadTodos(fs') = Decoded(todos')
          /\ (ret.op = "delete" /\ ret.flag /\ ret.arg = id /\ delete(id, "none"))
                => /\ ~ret'.flag
                   /\ ~ret'.saved
                   /\ todos' = todos
                   /\ fs' = fs]_vars

\* the first of two todos was deleted, and then deleted again
C11_Witness ==
    /\ ret.op = "delete"
    /\ ret.arg = 1
    /\ ~ret.flag
    /\ nextId = 2
    /\ Len(todos) = 1
    /\ todos[1].id = 2
    /\ Len(loadTodos(fs)) = 1

\* C12: delete, toggleComplete and updateTitle with a valid title, called
\* with an id that no todo has, return false/null without raising, leave the
\* in-memory collection unchanged and do not write the storage file.
C12_UnknownIdChangesNothing ==
    [][\A id \in IdInputs :
          (/\ id \notin Ids(todos)
           /\ \/ delete(id, "none")
              \/ toggleComplete(id, "none")
              \/ \E s \in TitleInputs : isValidTitle(s) /\ updateTitle(id, s, "none"))
              => /\ ret'.outcome = "return"
                 /\ ~ret'.flag
                 /\ ret'.objs = <<>>
                 /\ ~ret'.saved
                 /\ todos' = todos
                 /\ fs' = fs]_vars

\* updateTitle was given an id that was never handed out, with two todos stored
C12_Witness ==
    /\ ret.op = "updateTitle"
    /\ ret.outcome = "return"
    /\ ret.objs = <<>>
    /\ ~ret.saved
    /\ Len(todos) = 2

IdSeq(ts) == [i \in DOMAIN ts |-> ts[i].id]

\* C13: no two todos in the collection share an id; a todo keeps the id add
\* gave it; an id once handed out is never given to a later todo, also after
\* its todo was deleted.
C13_IdsUniqueNeverReused ==
    /\ [](/\ \A i, j \in DOMAIN todos : todos[i].id = todos[j].id => i = j
          /\ Ids(todos) \subseteq 1..nextId)
    /\ [][/\ \A j \in DOMAIN todos' :
                \* an id handed out before belongs to the todo that had it
                /\ todos'[j].id \in 1..nextId =>
                      \E i \in DOMAIN todos :
                          /\ todos[i].id = todos'[j].id
                          /\ todos[i].createdAt = todos'[j].createdAt
                \* a new todo has an id never handed out before
                /\ todos'[j].id \notin 1..nextId =>
                      /\ j = Len(todos')
                      /\ todos'[j].id \notin Ids(todos)
                      /\ nextId' > nextId
                      /\ todos'[j].id \in (nextId + 1)..nextId'
          /\ nextId' >= nextId]_vars

\* the first todo was deleted and a later add got another id
C13_Witness ==
    /\ ret.op = "add"
    /\ ret.saved
    /\ Len(todos) = 1
    /\ todos[1].id = 2
    /\ nextId = 2

IsInsertionOrder(ts) == \A i, j \in DOMAIN ts : i < j => ts[i].id < ts[j].id

\* C14: getAll() returns the todos in the order they were added (an id handed
\* out later is larger), whatever toggleComplete, updateTitle and delete did
\* in between, and a model started on the saved file returns the same order.
C14_InsertionOrder ==
    /\ IsInsertionOrder(Values(todos, getAll(todos)))
    /\ IdSeq(Values(loadTodos(fs), getAll(loadTodos(fs))))
          = IdSeq(Values(todos, getAll(todos)))

\* of three todos the middle one was deleted, the last edited and the first
\* completed
C14_Witness ==
    /\ IdSeq(todos) = <<1, 3>>
    /\ todos[1].completed
    /\ todos[2].title = <<Run("x", 100)>>
    /\ ret.op = "toggleComplete"
    /\ ret.saved

\* The todo a successful add, toggleComplete or updateTitle has just acted on
Touched(r, ts) ==
    IF r.op = "add" THEN ts[Len(ts)] ELSE Deref(ts, r.objs[1])

\* C15: every todo in the collection has updatedAt set, not before createdAt,
\* and a successful add, toggleComplete or updateTitle leaves the todo it
\* acted on with updatedAt equal to the time of that call.
C15_UpdatedAtTracksLastChange ==
    /\ [](\A i \in DOMAIN todos :
             /\ todos[i].updatedAt # Undefined
             /\ todos[i].updatedAt.ms >= todos[i].createdAt.ms)
    /\ [][(/\ ret'.op \in {"add", "toggleComplete", "updateTitle"}
           /\ ret'.saved
           /\ ret' # ret)
              => Touched(ret', todos').updatedAt = DateOf(now)]_vars

\* Supporting fact for C15: a todo read back from the file has updatedAt set
\* and never before createdAt
LoadedUpdatedAtSet ==
    \A i \in DOMAIN loadTodos(fs) :
        /\ loadTodos(fs)[i].updatedAt # Undefined
        /\ loadTodos(fs)[i].updatedAt.ms >= loadTodos(fs)[i].createdAt.ms

CountWhere(ts, completed) ==
    Cardinality({i \in DOMAIN ts : ts[i].completed = completed})

\* C16: at every point getCount() is the length of getAll(),
\* getCompletedCount() the number of completed todos in getAll(),
\* getIncompleteCount() the number of the others, and the two add up to
\* getCount().
C16_CountsAgreeWithGetAll ==
    LET all == Values(todos, getAll(todos))
    IN /\ getCount(todos) = Len(all)
       /\ getCompletedCount(todos) = CountWhere(all, TRUE)
       /\ getIncompleteCount(todos) = CountWhere(all, FALSE)
       /\ getCompletedCount(todos) + getIncompleteCount(todos) = getCount(todos)

\* two todos, one of them completed
C16_Witness ==
    /\ Len(todos) = 2
    /\ todos[1].completed
    /\ ~todos[2].completed
    /\ getCompletedCount(todos) = 1

\* C17: clear() returns the number of todos present before the call, leaves
\* the collection empty and saves: afterwards the storage file exists and
\* holds the empty collection, also when there was nothing to remove.
C17_ClearEmptiesAndSaves ==
    [][clear("none")
          => /\ ret'.outcome = "return"
             /\ ret'.count = Len(todos)
             /\ todos' = <<>>
             /\ ret'.saved
             /\ FinalContent(fs') = [exists |-> TRUE, data |-> Stringify(<<>>)]
             /\ loadTodos(fs') = <<>>]_vars

\* clear() has removed two todos
C17_Witness ==
    /\ ret.op = "clear"
    /\ ret.count = 2
    /\ ret.saved
    /\ todos = <<>>
    /\ FinalContent(fs) = [exists |-> TRUE, data |-> Stringify(<<>>)]

-----------------------------------------------------------------------------
(* TodoModel: failing saves *)

\* The collection each call is meant to produce
WithAdded(ts, title, id, at) ==
    Append(ts, Todo(id, Trim(title), FALSE, DateOf(at), Undefined))

WithoutId(ts, id) == Filter(ts, {t \in {ts[i] : i \in DOMAIN ts} : t.id # id})

WithToggled(ts, id) ==
    [i \in DOMAIN ts |->
        IF ts[i].id = id THEN [ts[i] EXCEPT !.completed = ~@] ELSE ts[i]]

WithTitle(ts, id, title) ==
    [i \in DOMAIN ts |->
        IF ts[i].id = id THEN [ts[i] EXCEPT !.title = Trim(title)] ELSE ts[i]]

\* C18 as stated: a model call that fails, in whatever way, leaves the
\* in-memory collection exactly as it was before the call.
C18_FailedCallChangesNothing ==
    [][ret'.outcome = "throw" => todos' = todos]_vars

\* C18 as amended: a model call that fails validation leaves the in-memory
\* collection as it was; a call whose save fails raises with its change
\* applied in full to the in-memory collection, never in part.
C18_AllOrNothingExceptFailedSave ==
    [][/\ (ret'.outcome = "throw" /\ ret'.error = "validation") => todos' = todos
       /\ \A fault \in RealFaults :
             /\ \A title \in FaultyTitles :
                   (ret'.op = "add" /\ add(title, fault))
                      => todos' = WithAdded(todos, title, nextId + 1, now)
             /\ \A id \in IdInputs :
                   /\ (ret'.op = "delete" /\ delete(id, fault)) => todos' = WithoutId(todos, id)
                   /\ (ret'.op = "toggleComplete" /\ toggleComplete(id, fault)) => todos' = WithToggled(todos, id)
                   /\ \A title \in FaultyTitles :
                         (ret'.op = "updateTitle" /\ updateTitle(id, title, fault))
                            => todos' = WithTitle(todos, id, title)
             /\ (ret'.op = "clear" /\ clear(fault)) => todos' = <<>>]_vars

\* an add with a padded title failed to save: the todo is in memory only
C18_Witness ==
    /\ ret.op = "add"
    /\ ret.error = "persist"
    /\ Len(todos) = 2
    /\ todos[2].title = <<Run("x", 100)>>
    /\ Len(loadTodos(fs)) = 1

\* What raising with the file kept means for the step just taken
RaisedFileKept ==
    /\ ret'.outcome = "throw"
    /\ ret'.error = "persist"
    /\ ~ret'.saved
    /\ FinalContent(fs') = FinalContent(fs)

Shown(ts) == Values(ts, getAll(ts))

\* C19: when Storage.save raises during add, delete, toggleComplete,
\* updateTitle or clear, the model call raises to its caller, getAll() of the
\* same instance shows the change the call made, and the storage file keeps
\* the content it had.
C19_FailedSaveRaisesAndDiverges ==
    [][\A fault \in RealFaults :
          /\ \A title \in FaultyTitles :
                (ret'.op = "add" /\ add(title, fault))
                   => /\ RaisedFileKept
                      /\ Shown(todos') = WithAdded(todos, title, nextId + 1, now)
          /\ \A id \in IdInputs :
                /\ (ret'.op = "delete" /\ delete(id, fault))
                      => RaisedFileKept /\ Shown(todos') = WithoutId(todos, id)
                /\ (ret'.op = "toggleComplete" /\ toggleComplete(id, fault))
                      => RaisedFileKept /\ Shown(todos') = WithToggled(todos, id)
                /\ \A title \in FaultyTitles :
                      (ret'.op = "updateTitle" /\ updateTitle(id, title, fault))
                         => /\ RaisedFileKept
                            /\ Shown(todos') = WithTitle(todos, id, title)
          /\ (ret'.op = "clear" /\ clear(fault)) => RaisedFileKept /\ Shown(todos') = <<>>]_vars

\* clear() failed to save: memory is empty, the file still holds two todos
C19_Witness ==
    /\ ret.op = "clear"
    /\ ret.error = "persist"
    /\ todos = <<>>
    /\ Len(loadTodos(fs)) = 2

-----------------------------------------------------------------------------
(* BlessedUIFramework: focus *)

IsCall(ev) == ev.e \in FrameworkCalls

\* The calls made on the framework since it was built, in order
CallsMade == SelectSeq(events, IsCall)

\* How often the framework has called e on panel p
Count(e, p) == Cardinality({k \in DOMAIN events : events[k] = Event(e, p)})

\* register(A), register(B), switchTo(B) on a fresh framework, B focusable
RegisteredBothSwitchedTo(a, b) ==
    /\ a # b
    /\ CallsMade = <<Event("registerPanel", a), Event("registerPanel", b),
                     Event("switchToPanel", b)>>
    /\ panels[PanelsGet(panels, b)].focusable

\* C20 as stated: for any two panels A and B with distinct types, B
\* focusable, after register(A), register(B), switchTo(B) on a fresh
\* framework A.blur() was called exactly once, B.focus() exactly once, and
\* the current panel is B.
C20_FocusContractAnyPanels ==
    \A a, b \in PanelType :
        RegisteredBothSwitchedTo(a, b)
            => /\ Count("blur", a) = 1
               /\ Count("focus", b) = 1
               /\ currentPanel = b

\* C20 as amended: the same with A the list panel, which holds the focus of
\* a fresh framework; for any other A, B.focus() was called exactly once and
\* the current panel is B, but A.blur() was not called.
C20_FocusContractFromListPanel ==
    \A a, b \in PanelType :
        RegisteredBothSwitchedTo(a, b)
            => /\ Count("focus", b) = 1
               /\ currentPanel = b
               /\ Count("blur", a) = (IF a = TODO_LIST THEN 1 ELSE 0)

\* the list panel and the details panel were registered, then the details
\* panel was switched to
C20_Witness ==
    /\ RegisteredBothSwitchedTo(TODO_LIST, DETAILS)
    /\ Count("blur", TODO_LIST) = 1
    /\ currentPanel = DETAILS

-----------------------------------------------------------------------------
(* BlessedUIFramework: what one call does *)

\* This step is the call name(arg) on the framework
StepIsCall(name, arg) ==
    /\ Len(events') > Len(events)
    /\ SubSeq(events', 1, Len(events)) = events
    /\ events'[Len(events) + 1] = Event(name, arg)

\* What the framework did during this step's call, in order
Added == SubSeq(events', Len(events) + 2, Len(events'))

\* Position of the first ev in es, 0 if there is none
Pos(es, ev) ==
    IF \E k \in DOMAIN es : es[k] = ev
    THEN CHOOSE k \in DOMAIN es : es[k] = ev /\ \A j \in 1..(k - 1) : es[j] # ev
    ELSE 0

\* The calls of e on any panel among es, in order
Calls(es, e) == SelectSeq(es, LAMBDA ev : ev.e = e)

\* The panel registered under type can take the focus
Focusable(type) ==
    /\ PanelsGet(panels, type) # 0
    /\ panels[PanelsGet(panels, type)].focusable

\* C21: switchToPanel(type) for a type that is not registered, or whose
\* registered panel is not focusable, calls no panel's blur() or focus(),
\* leaves the current panel (and every panel's border) as it was and does
\* not render, whatever is registered.
C21_SwitchToUnusableIsNoOp ==
    [][\A type \in PanelType :
          (StepIsCall("switchToPanel", type) /\ ~Focusable(type))
              => /\ Added = <<>>
                 /\ currentPanel' = currentPanel
                 /\ panels' = panels]_vars

\* the status bar, registered non-focusable next to the focused list panel,
\* was switched to, and nothing happened
C21_Witness ==
    /\ Len(events) > 0
    /\ events[Len(events)] = Event("switchToPanel", STATUS)
    /\ PanelsGet(panels, STATUS) # 0
    /\ ~panels[PanelsGet(panels, STATUS)].focusable
    /\ PanelsGet(panels, TODO_LIST) # 0
    /\ currentPanel = TODO_LIST

\* the details panel was switched to before any panel was registered
C21_WitnessUnregistered ==
    /\ events = <<Event("switchToPanel", DETAILS)>>
    /\ currentPanel = TODO_LIST

\* C22: switchToPanel(type) for a registered focusable panel calls blur() on
\* the panel registered under the current type (once, first of all), then
\* assigns type to currentPanel, then calls focus() on the target (once),
\* and renders last; when it returns the current panel is type.
C22_SwitchToOrder ==
    [][\A type \in PanelType :
          (StepIsCall("switchToPanel", type) /\ Focusable(type))
              => LET blurs == Calls(Added, "blur")
                     set == Pos(Added, Event("set", type))
                     focus == Pos(Added, Event("focus", type))
                 IN /\ IF PanelsGet(panels, currentPanel) # 0
                       THEN /\ blurs = <<Event("blur", currentPanel)>>
                            /\ Added[1] = Event("blur", currentPanel)
                       ELSE blurs = <<>>
                    /\ Calls(Added, "focus") = <<Event("focus", type)>>
                    /\ Pos(Added, Event("blur", currentPanel)) < set
                    /\ 0 < set /\ set < focus
                    /\ \A k \in 1..(focus - 1) : Added[k].e # "render"
                    /\ Added[Len(Added)] = Event("render", "screen")
                    /\ currentPanel' = type]_vars

\* the list panel held the focus and the details panel was switched to:
\* blur, assignment, focus, render
C22_Witness ==
    /\ Len(events) >= 5
    /\ SubSeq(events, Len(events) - 4, Len(events)) =
          <<Event("switchToPanel", DETAILS), Event("blur", TODO_LIST),
            Event("set", DETAILS), Event("focus", DETAILS),
            Event("render", "screen")>>
    /\ currentPanel = DETAILS

\* The last call made on the framework before this step
LastCall == CallsMade[Len(CallsMade)]

\* C24: a native focus on a registered panel's element makes that panel's
\* type the current panel, and a switchToPanel of another focusable panel
\* made next calls blur() on that panel and on no other.
C24_NativeFocusIsBlurredNext ==
    [][\A p \in PanelType :
          /\ StepIsCall("nativeFocus", p) => currentPanel' = p
          /\ \A type \in PanelType \ {p} :
                (/\ CallsMade # <<>>
                 /\ LastCall = Event("nativeFocus", p)
                 /\ StepIsCall("switchToPanel", type)
                 /\ Focusable(type))
                    => Calls(Added, "blur") = <<Event("blur", p)>>]_vars

\* the details panel's element got the focus while the list panel was the
\* current one; the command input was switched to next and the details
\* panel was blurred
C24_Witness ==
    /\ Len(CallsMade) >= 2
    /\ CallsMade[Len(CallsMade) - 1] = Event("nativeFocus", DETAILS)
    /\ LastCall = Event("switchToPanel", COMMAND_INPUT)
    /\ Count("blur", DETAILS) = 1
    /\ events[Len(events) - 3] = Event("blur", DETAILS)
    /\ currentPanel = COMMAND_INPUT

-----------------------------------------------------------------------------
(* BlessedUIFramework: tab order, refreshing *)

\* The framework as it stands
Framework == UI(panels, currentPanel, events)

\* The list, details and command input panels are registered and can take
\* the focus, and one of them has it
CycleReady ==
    /\ Focusable(TODO_LIST) /\ Focusable(DETAILS) /\ Focusable(COMMAND_INPUT)
    /\ currentPanel \in {TODO_LIST, DETAILS, COMMAND_INPUT}

\* list-view -> detail-view -> command-input -> list-view
Successor(type) ==
    IF type = TODO_LIST THEN DETAILS
    ELSE IF type = DETAILS THEN COMMAND_INPUT
    ELSE TODO_LIST

Predecessor(type) ==
    IF type = TODO_LIST THEN COMMAND_INPUT
    ELSE IF type = DETAILS THEN TODO_LIST
    ELSE DETAILS

\* C23: with the list, details and command input panels registered and
\* focusable and the focus on one of them, tab moves the current panel
\* list -> details -> command input -> list, shift-tab moves it the other
\* way round, tab then shift-tab and shift-tab then tab leave it where it
\* was, and neither makes the status bar the current panel.
C23_TabCycle ==
    [][CycleReady =>
          /\ StepIsCall("switchToNextPanel", "screen")
                => currentPanel' = Successor(currentPanel)
          /\ StepIsCall("switchToPreviousPanel", "screen")
                => currentPanel' = Predecessor(currentPanel)
          /\ switchToPreviousPanel(switchToNextPanel(Framework)).currentPanel
                = currentPanel
          /\ switchToNextPanel(switchToPreviousPanel(Framework)).currentPanel
                = currentPanel
          /\ switchToNextPanel(Framework).currentPanel # STATUS
          /\ switchToPreviousPanel(Framework).currentPanel # STATUS]_vars

\* tab three times from the list panel: details, command input, list again
C23_Witness ==
    /\ CallsMade = <<Event("switchToNextPanel", "screen"),
                     Event("switchToNextPanel", "screen"),
                     Event("switchToNextPanel", "screen")>>
    /\ Count("focus", DETAILS) = 1
    /\ Count("focus", COMMAND_INPUT) = 1
    /\ currentPanel = TODO_LIST

\* shift-tab from the list panel to the command input, tab back to the list
C23_WitnessBack ==
    /\ CallsMade = <<Event("switchToPreviousPanel", "screen"),
                     Event("switchToNextPanel", "screen")>>
    /\ Count("focus", COMMAND_INPUT) = 1
    /\ currentPanel = TODO_LIST

\* Position in the log of the first and of the last registration under type
FirstAppend(type) == Pos(events, Event("append", type))

LastAppend(type) ==
    CHOOSE k \in DOMAIN events :
        /\ events[k] = Event("append", type)
        /\ \A j \in (k + 1)..Len(events) : events[j] # Event("append", type)

\* This step is refreshAllPanels(): refresh() is called once on each
\* registered panel and on nothing else, the panels being taken in the
\* order `before`, and a render follows the return of the last refresh()
RefreshesOnceInOrder(before(_, _)) ==
    StepIsCall("refreshAllPanels", "screen")
        => LET refreshes == Calls(Added, "refresh")
           IN /\ Len(refreshes) = Len(panels)
              /\ \A i \in DOMAIN panels :
                    Cardinality({k \in DOMAIN refreshes :
                                    refreshes[k].p = panels[i].type}) = 1
              /\ \A j, k \in DOMAIN refreshes :
                    j < k => before(refreshes[j].p, refreshes[k].p)
              /\ Added[Len(Added)] = Event("render", "screen")
              /\ panels # <<>> => Added[Len(Added) - 1].e = "refreshed"

\* C25 as stated: refreshAllPanels() calls refresh() exactly once on every
\* registered panel, in the order in which the panels were registered, and
\* the framework's render comes after the last refresh().
C25_RefreshInOrderRegistered ==
    [][RefreshesOnceInOrder(LAMBDA p, q : LastAppend(p) < LastAppend(q))]_vars

\* C25 as amended: the same, the panels being taken in the order in which
\* their types were first registered: a panel registered under a type
\* already in use takes the place of the panel it replaces.
C25_RefreshInOrderOfFirstRegistration ==
    [][RefreshesOnceInOrder(LAMBDA p, q : FirstAppend(p) < FirstAppend(q))]_vars

\* another list panel was registered in place of the application's, then
\* all panels were refreshed: the new list panel first, the status bar last
C25_Witness ==
    /\ Len(CallsMade) = 2
    /\ CallsMade[1] = Event("registerPanel", TODO_LIST)
    /\ CallsMade[2] = Event("refreshAllPanels", "screen")
    /\ Calls(events, "refresh") =
          <<Event("refresh", TODO_LIST), Event("refresh", DETAILS),
            Event("refresh", COMMAND_INPUT), Event("refresh", STATUS)>>
    /\ events[Len(events)] = Event("render", "screen")

-----------------------------------------------------------------------------
(* TerminalUIApp: rendering, what the panels hold *)

\* How often the screen was rendered from the k-th to the l-th entry of the
\* last handler's log
Renders(k, l) ==
    Cardinality({j \in k..l : events[j] = Event("render", "screen")})

\* C26: each user action that refreshes the display renders the screen
\* exactly once: one refreshAllPanels() call renders once, and one
\* refreshAllData() of the shell after a mutation renders once, the renders
\* inside the panels' refresh and update methods counted.
C26_OneRenderPerRefresh ==
    /\ events[1] = Event("refreshAllPanels", "app")
          => Renders(1, Len(events)) = 1
    /\ \A k, l \in DOMAIN events :
          (/\ events[1].e \in {"handleCommand", "toggleTodoCompletion", "deleteTodo"}
           /\ events[k] = Event("refreshAllData", "app")
           /\ events[l] = Event("refreshAllDataDone", "app"))
              => Renders(k, l) = 1

\* Supporting fact for C26: a refresh renders at least three times
RefreshRendersThrice ==
    /\ events[1] = Event("refreshAllPanels", "app")
          => Renders(1, Len(events)) >= 3
    /\ \A k, l \in DOMAIN events :
          (/\ events[k] = Event("refreshAllData", "app")
           /\ events[l] = Event("refreshAllDataDone", "app"))
              => Renders(k, l) >= 3

\* What the panels show of what they hold: the list panel's todos, the
\* details panel's todo, the status bar's statistics
PanelData ==
    [todos |-> [k \in DOMAIN shell.todos |-> Look(todos, shell.todos[k])],
     currentTodo |-> [k \in DOMAIN shell.currentTodo |->
                        Look(todos, shell.currentTodo[k])],
     stats |-> shell.stats]

\* The last handler called a panel method that pushes data
PushedData ==
    \E k \in DOMAIN events :
        events[k].e \in {"updateTodos", "updateStats", "displayTodo"}

\* C27: when the model's collection changes in a step in which no panel was
\* handed data (updateTodos, updateStats, displayTodo), the todos the list
\* panel holds, the todo the details panel holds and the status bar's
\* statistics are what they were, whether or not the panels were asked to
\* refresh.
C27_ModelChangeLeavesPanels ==
    [][(todos' # todos /\ ~PushedData') => PanelData' = PanelData]_vars

\* 'add a' was typed and the save failed: the model holds a todo, the list
\* panel none, the status bar counts none
C27_Witness ==
    /\ events[1] = Event("handleCommand", "app")
    /\ ~PushedData
    /\ ret.op = "add" /\ ret.outcome = "throw" /\ ret.error = "persist"
    /\ Len(todos) = 1
    /\ PanelData.todos = <<>>
    /\ PanelData.stats.total = 0

\* The last handler made a model call that changed the collection and
\* returned: a typed add, complete, delete or clear, the toggle key, a
\* confirmed delete
MutatedSuccessfully ==
    /\ events[1].e \in {"handleCommand", "toggleTodoCompletion", "deleteTodo"}
    /\ ret.outcome = "return"
    /\ \/ ret.op \in {"add", "clear"}
       \/ ret.op = "toggleComplete" /\ ret.objs # <<>>
       \/ ret.op = "delete" /\ ret.flag

\* C30: when a handler of the shell that successfully mutated the model has
\* returned, the todos the list panel holds are those of getAll() and the
\* status bar's total and completed equal getCount() and getCompletedCount().
C30_PanelsFollowModel ==
    MutatedSuccessfully
        => /\ PanelData.todos = Values(todos, getAll(todos))
           /\ shell.stats.total = getCount(todos)
           /\ shell.stats.completed = getCompletedCount(todos)

\* two todos were added and one of them completed by a typed command
C30_Witness ==
    /\ MutatedSuccessfully
    /\ ret.op = "toggleComplete"
    /\ Len(PanelData.todos) = 2
    /\ shell.stats.completed = 1
    /\ shell.stats.percentage = 50

\* the selected todo was deleted with the d key, one todo is left
C30_WitnessDeleteKey ==
    /\ MutatedSuccessfully
    /\ events[1] = Event("deleteTodo", "app")
    /\ Len(PanelData.todos) = 1
    /\ shell.stats.total = 1

-----------------------------------------------------------------------------
(* TodoModel: toggleComplete touches one todo *)

\* What getByStatus(completed) returns, the todo with this id left out
StatusOthers(ts, completed, id) ==
    WithoutId(Values(ts, getByStatus(ts, completed)), id)

\* C28: toggleComplete(id) on an id in the collection negates completed of
\* that todo, leaves every other todo as it was, in place, and afterwards
\* getByStatus(true) and getByStatus(false) are what they were but for that
\* todo, which has moved from the one to the other.
C28_ToggleTouchesOne ==
    [][\A id \in 1..MaxOrderIds :
          (ret'.op = "toggleComplete" /\ id \in Ids(todos)
                                      /\ toggleComplete(id, "none"))
              => LET i == Find(todos, id)
                     now_ == todos'[i].completed
                 IN /\ Len(todos') = Len(todos)
                    /\ todos'[i].completed = ~todos[i].completed
                    /\ \A k \in DOMAIN todos : k # i => todos'[k] = todos[k]
                    /\ \A completed \in BOOLEAN :
                          StatusOthers(todos', completed, id)
                              = StatusOthers(todos, completed, id)
                    /\ id \in Ids(Values(todos', getByStatus(todos', now_)))
                    /\ id \notin Ids(Values(todos', getByStatus(todos', ~now_)))
                    /\ id \in Ids(Values(todos, getByStatus(todos, ~now_)))]_vars

\* of three todos the second has just been completed; the first was
\* completed before and the third is pending
C28_Witness ==
    /\ ret.op = "toggleComplete" /\ ret.objs = <<Ref(2)>>
    /\ Len(todos) = 3
    /\ todos[1].completed /\ todos[2].completed /\ ~todos[3].completed
    /\ Len(getByStatus(todos, TRUE)) = 2
    /\ Len(getByStatus(todos, FALSE)) = 1

-----------------------------------------------------------------------------
(* TodoModel: two instances on one storage path *)

\* The file holds exactly what JSON.stringify makes of ts
FileIs(ts) == FinalContent(fs) = [exists |-> TRUE, data |-> Stringify(ts)]

\* Whichever instance saved last, the file is its collection and holds no id
\* the other instance added after the saver was constructed
LastWriterWins ==
    /\ other.lastSaver = "called"
            => FileIs(todos) /\ Ids(loadTodos(fs)) \cap other.theirs = {}
    /\ other.lastSaver = "other"
            => FileIs(other.todos) /\ Ids(loadTodos(fs)) \cap other.ours = {}

\* Neither instance holds a todo that the other one added after the holder
\* was constructed: the other's saves have not reached its memory
MemoryKept ==
    /\ Ids(todos) \cap other.theirs = {}
    /\ Ids(other.todos) \cap other.ours = {}

\* C29: with two TodoModel instances on the same storage path, each loading
\* the file only at construction, after any interleaving of their successful
\* mutating calls the file equals the in-memory collection of the instance
\* that saved last; what the other instance added after the saver was
\* constructed is absent from the file; and neither instance's in-memory
\* collection is changed by the other's saves.
C29_LastWriterWins == LastWriterWins /\ MemoryKept

\* The called instance has just saved over a todo the other instance added
\* and still holds: the update is lost from the file, not from that memory
C29_Witness ==
    /\ other.lastSaver = "called"
    /\ ret.saved
    /\ todos # <<>>
    /\ other.theirs # {}
    /\ other.theirs \subseteq Ids(other.todos)
    /\ other.todos # todos

\* The same seen from the other side: the instance not called saved last, and
\* the called one still holds a collection the file no longer has
C29_WitnessStale ==
    /\ other.lastSaver = "other"
    /\ other.ours # {}
    /\ other.ours \subseteq Ids(todos)
    /\ ~FileIs(todos)

-----------------------------------------------------------------------------
(* BlessedUIFramework: where the focus can be *)

FocusableTags == {TODO_LIST, DETAILS, COMMAND_INPUT}

\* C39: after any sequence of registerPanel, switchToPanel, next/previous and
\* native focus events, with the status bar not registered as focusable, the
\* current panel is one of the list, details and command input types and
\* never the status bar's.
C39_FocusNeverOnStatus ==
    ~Focusable(STATUS) => currentPanel \in FocusableTags

\* The registered panels that can take the focus
RegisteredFocusable == {type \in PanelType : Focusable(type)}

\* C40: in every reachable state of the registry with at least two focusable
\* panels registered, each switchToNextPanel() and each
\* switchToPreviousPanel() makes a different registered focusable panel the
\* current one, so the focus is never stuck.
C40_NavigationNeverStuck ==
    [][(/\ Cardinality(RegisteredFocusable) >= 2
        /\ \/ StepIsCall("switchToNextPanel", "screen")
           \/ StepIsCall("switchToPreviousPanel", "screen"))
          => /\ currentPanel' # currentPanel
             /\ currentPanel' \in RegisteredFocusable]_vars

-----------------------------------------------------------------------------
(* The command line program: identifiers, complete, add, failures *)

\* The todo an identifier names, as the help texts give it ("either the todo
\* ID or its index number", "indexes start from 1"): the id it is equal to,
\* else the id at the position it is the number of; 0 if it names none
Meant(ts, id) ==
    IF IdOf(id) \in Ids(ts) THEN IdOf(id)
    ELSE IF id.kind = "int" /\ id.n \in 1..Len(ts) THEN ts[id.n].id
    ELSE 0

\* This step is execute(pc) with every save succeeding
StepExecutes(pc) == cli'.command = pc.command /\ execute(pc, "none")

\* The todos other than the one with this id are in ts2 as they are in ts1
OthersKept(ts1, ts2, id) ==
    \A i \in DOMAIN ts1 :
        ts1[i].id # id => \E j \in DOMAIN ts2 : ts2[j] = ts1[i]

\* C34: complete, remove and edit take their identifier first as an exact
\* todo id and otherwise as a 1-based position in the order of getAll(): a
\* command that succeeds has touched that todo and no other; an identifier
\* that is equal to no id and is not an integer between 1 and getCount()
\* gives a failure, and the collection and the file stay as they were.
C34_IdentifierResolution ==
    [][\A pc \in CliCommands :
          (pc.command \in {"complete", "remove", "edit"} /\ StepExecutes(pc))
              => IF Meant(todos, pc.id) = 0
                 THEN ~cli'.success /\ todos' = todos /\ fs' = fs
                 ELSE cli'.success
                        => /\ OthersKept(todos, todos', Meant(todos, pc.id))
                           /\ todos' # todos]_vars

\* C32: after a successful `complete <id>` without --undo the todo is
\* completed, after a successful `complete <id> --undo` it is not, whatever
\* it was before.
C32_CompleteSetsTheState ==
    [][\A pc \in CliCommands :
          (pc.command = "complete" /\ Meant(todos, pc.id) # 0
                /\ StepExecutes(pc) /\ cli'.success)
              => todos'[Find(todos', Meant(todos, pc.id))].completed
                    = ("undo" \notin pc.flags)]_vars

\* C33: `add <title>` on the command line accepts a title exactly when
\* TodoModel.add does: a title of trimmed length 1..100 is not rejected by
\* the parser and is added, any other title gives a failure and nothing is
\* added.
C33_AddAcceptsWhatTheModelAccepts ==
    [][\A title \in CliTitles :
          (cli'.command = "add"
                /\ run(Argv("add", <<TitleWord(title)>>, {}, FALSE, <<>>)))
              => IF isValidTitle(title)
                 THEN /\ cli'.stage = "execute"
                      /\ cli'.success
                      /\ Len(todos') = Len(todos) + 1
                 ELSE ~cli'.success /\ todos' = todos]_vars

\* The command must fail: its name is no command, its identifier names no
\* todo, its title is not valid, or the save fails
MustFail(pc, fault) ==
    \/ fault # "none"
    \/ pc.command \notin CLI_COMMANDS
    \/ pc.command \in {"complete", "remove", "edit"} /\ Meant(todos, pc.id) = 0
    \/ pc.command = "add" /\ ~isValidTitle(pc.title)
    \/ pc.command = "edit" /\ (~pc.hasTitle \/ ~isValidTitle(pc.title))

ReturnsFailure(pc, fault) ==
    (cli'.command = pc.command /\ execute(pc, fault))
        => /\ cli'.stage = "execute"
           /\ MustFail(pc, fault) => (~cli'.success /\ cli'.error # "none")

\* C31: execute() never throws: for a command whose name is unknown, whose
\* id is unknown, whose title is invalid or during which the model fails to
\* persist, it returns a result with success = false and an error message.
C31_ExecuteReturnsFailure ==
    [][\A pc \in CliCommands, fault \in SaveFaults : ReturnsFailure(pc, fault)]_vars

\* Identifiers in which parseInt finds no number that the whole text is not
PlainId(id) ==
    id.kind \in {"int", "word", "none"} \/ (id.kind = "uuid" /\ uuidLeading(id.n).nan)

\* The same for the commands whose identifier is plain
ExecuteReturnsFailureOnPlainIds ==
    [][\A pc \in CliCommands, fault \in SaveFaults :
          PlainId(pc.id) => ReturnsFailure(pc, fault)]_vars


-----------------------------------------------------------------------------
(* TerminalUIApp: an edit saved in the details panel *)

\* The title of the todo with this id in a collection of todos, <<>> if the
\* collection has none
TitleIn(ts, id) ==
    IF \E i \in DOMAIN ts : ts[i].id = id
    THEN ts[CHOOSE i \in DOMAIN ts : ts[i].id = id].title
    ELSE <<>>

\* What the panels hold of the todo with this id
ListTitle(sh, id) == TitleIn([i \in DOMAIN sh.todos |-> sh.todos[i].val], id)

\* The step saves an edit of a todo of the model with a non-empty title
SavesEdit(value) ==
    /\ Trim(value) # <<>>
    /\ SaveChangesKey(value)
    /\ \E i \in DOMAIN todos : todos[i].id = shell.currentTodo[1].val.id

\* C35: saving an edit in the details panel with a non-empty title makes
\* the edited title the title of the todo in the model and in the stored
\* file, and the list panel and the details panel show it after the refresh
C35_EditReachesTheModel ==
    [][\A value \in EditTitles :
          SavesEdit(value) =>
              LET id == shell.currentTodo[1].val.id
              IN /\ TitleIn(todos', id) = Trim(value)
                 /\ TitleIn(loadTodos(fs'), id) = Trim(value)
                 /\ ListTitle(shell', id) = Trim(value)
                 /\ shell'.currentTodo # <<>>
                 /\ shell'.currentTodo[1].val.title = Trim(value)]_vars


-----------------------------------------------------------------------------
(* TodoView: the title bar after notifications *)

\* C36: whatever showMessage calls were made and whenever, once all their
\* restore timers have fired the title bar shows what it showed before the
\* first message, and no notification
C36_TitleRestored == view.timers = <<>> => view.title = TitleContent


-----------------------------------------------------------------------------
(* CommandInputPanel and the status line: after a command is submitted *)

\* C37: after a command is submitted with Enter the box is empty once the
\* feedback timer has fired, unless the user has typed or taken a command
\* from the history: the timer firing on an empty box leaves it empty, and
\* the submitted text does not come back
C37_BoxStaysEmpty ==
    [][(FeedbackTimer /\ input.value = Empty) => input'.value = Empty]_vars

\* C38: when handleCommand has completed a command with a result message,
\* the status line shows that message from the return of the handler until
\* the duration of the message has passed or a later handler shows another
C38_ResultStaysShown ==
    statusLine.result.left > 0 => statusLine.text = statusLine.result.message

====
